---- MODULE Spec2Model ----
(***************************************************************************)
(* A model of the Drax codec and framing engine: the VarNum codec, the     *)
(* component codecs, the NBT sizing/writing, the frame pipeline, the       *)
(* buffered transport reader and the read limiters.                        *)
(*                                                                         *)
(* Integers wider than TLC's are kept as little-endian bit vectors         *)
(* (b[1] is bit 0), so that shifts, masks and casts act on the bit pattern *)
(* exactly as the Rust code's do.                                          *)
(***************************************************************************)
EXTENDS Integers, Sequences, FiniteSets, TLC

VARIABLES
    \* --- VarNum codec run (transport/buffer/var_num.rs, extension.rs)
    vn_pc,        \* "start" | "written" | "read" | "crafted"
    vn_impl,      \* "future" (var_num.rs) | "sync" (extension.rs)
    vn_value,     \* the value handed to write_var_int / write_var_long (bit vector)
    vn_sink,      \* the bytes the writer produced
    vn_size,      \* what size_var_int / size_var_long reported
    vn_read,      \* the result of the read: [ok, value, consumed, err]
    \* --- frame pipeline run (transport/frame.rs)
    fr_pc,         \* "start" | "encoded" | "decoded"
    compression,   \* the build's `compression` feature
    enc_threshold, \* FrameEncoder.compression_threshold (isize)
    dec_threshold, \* FrameDecoder.compression_threshold (isize)
    fr_frame,      \* the PacketFrame handed to FrameEncoder.process
    fr_wire,       \* the bytes between encoder and decoder
    fr_tampered,   \* whether the declared length was rewritten on the way
    fr_out,        \* what FrameDecoder.process returned
    \* --- buffered transport reader (transport/buffered_reader.rs)
    rd_src,        \* every byte the source will deliver, in order
    rd_pos,        \* how many of them it has delivered
    rd_eof,        \* whether the source reports end-of-stream once drained
    rd_sent,       \* the payloads FrameSizeAppender framed into rd_src
    buffer,        \* DraxTransportPipeline.buffer (the bytes it holds)
    rd_future,     \* "none" | "pending": a ReadTransportPacket is in flight
    ready_size,    \* ReadTransportPacket.ready_size: <<>> is None, <<n>> is Some(n)
    rd_results,    \* what every completed read_transport_packet returned
    rd_polls,      \* polls of the current read_transport_packet future so far (capped)
    rd_dropped,    \* whether a future was dropped after it had parsed a length prefix
    \* --- ReadLimiter / SoftReadLimiter (transport/buffer.rs)
    lim_soft,        \* TRUE: SoftReadLimiter, FALSE: ReadLimiter
    overflow_checks, \* the build's integer overflow checks (debug / release)
    limit,           \* .limit (VarInt)
    current,         \* .current (usize)
    lim_src,         \* the bytes of the wrapped reader
    lim_pos,         \* how many of them the wrapped reader has handed out
    rbuf,            \* the caller's ReadBuf: [filled, capacity]
    lim_last,        \* what the last poll_read returned, and the state it started in
    \* --- component codecs (transport/packet/*.rs, nbt.rs)
    cc_pc,         \* "start" | "encoded"
    cc_type,       \* which PacketComponent
    cc_value,      \* the instance
    cc_bytes,      \* what encode wrote
    cc_size,       \* what size reported: [kind, n]
    \* --- NBT (drax_core nbt.rs, and the crate's own nbt.rs)
    nbt_pc,        \* "start" | "written" | "crafted" | "optional" | "loaded" | "read"
    nbt_impl,      \* "core" (drax_core nbt.rs, sync) | "crate" (nbt.rs, async)
    nbt_tag,       \* the Tag handed to write_tag
    nbt_bit,       \* the tag bit handed to load_tag
    nbt_limit,     \* NbtAccounter.limit
    nbt_depth,     \* the depth handed to load_tag
    nbt_wire,      \* the bytes load_tag / read_nbt reads from
    nbt_size,      \* what size_tag reported
    nbt_out,       \* what load_tag / read_nbt returned
    \* --- EncryptedWriter / DecryptRead (transport/encryption.rs)
    ew_inner,      \* the wrapped writer: "cursor" takes every write whole, "socket" may not
    ew_plain,      \* the bytes the caller has to send
    ew_done,       \* how many of them poll_write has reported written
    ew_short,      \* how many writes the wrapped writer did not take whole (capped)
    ew_stream,     \* EncryptedWriter.stream: the encryptor's shift register
    cfb_wire,      \* the bytes the wrapped writer took, which the wrapped reader serves
    dr_pos,        \* how many of them the wrapped reader has served
    dr_stream,     \* DecryptRead.stream: the decryptor's shift register
    dr_out,        \* the bytes the caller's ReadBufs were filled with
    \* --- generated components and sequences (transport/packet.rs macros, packet/vec.rs)
    pk_pc,         \* "start" | "measured" | "decoded" | "crafted"
    pk_type,       \* the component type: a struct, a tagged union or a Vec
    pk_a,          \* one instance of it
    pk_b,          \* another instance of it
    pk_size_a,     \* what size reported for pk_a
    pk_size_b,     \* what size reported for pk_b
    pk_bytes_a,    \* what encode wrote for pk_a
    pk_bytes_b,    \* what encode wrote for pk_b
    pk_src,        \* the bytes decode was given
    pk_dec,        \* what decode returned
    \* --- length-prefixed strings and bytes (transport/packet/string.rs, vec.rs)
    lp_pc,         \* "start" | "decoded" | "encoded"
    lp_kind,       \* "String" | "LimitedString" | "VecU8"
    lp_n,          \* the N of LimitedString<N>
    lp_len,        \* the length in the prefix (decode), of the value (encode)
    lp_body,       \* how many bytes the source holds after the prefix
    lp_out,        \* what decode / encode returned and did
    \* --- VarNum futures polled against a source / sink that may be Pending
    pv_pc,         \* "start" | "reading" | "read" | "writing" | "written"
    pv_orig,       \* the value written / whose bytes are read
    pv_value,      \* the future's `value` field
    pv_bit_offset, \* ReadVarInt's `bit_offset` field
    pv_src,        \* the bytes of the reader
    pv_pos,        \* how many of them were read
    pv_sink,       \* the bytes that reached the writer
    pv_pendings,   \* polls that returned Pending after at least one byte went through
    pv_out         \* what the completed future returned

vnVars == <<vn_pc, vn_impl, vn_value, vn_sink, vn_size, vn_read>>
frVars == <<fr_pc, compression, enc_threshold, dec_threshold, fr_frame, fr_wire,
            fr_tampered, fr_out>>
rdVars == <<rd_src, rd_pos, rd_eof, rd_sent, buffer, rd_future, ready_size, rd_results,
           rd_polls, rd_dropped>>
limVars == <<lim_soft, overflow_checks, limit, current, lim_src, lim_pos, rbuf, lim_last>>
ccVars == <<cc_pc, cc_type, cc_value, cc_bytes, cc_size>>
nbtVars == <<nbt_pc, nbt_impl, nbt_tag, nbt_bit, nbt_limit, nbt_depth, nbt_wire, nbt_size,
            nbt_out>>
cfbVars == <<ew_inner, ew_plain, ew_done, ew_short, ew_stream, cfb_wire, dr_pos, dr_stream,
            dr_out>>
pkVars == <<pk_pc, pk_type, pk_a, pk_b, pk_size_a, pk_size_b, pk_bytes_a, pk_bytes_b,
           pk_src, pk_dec>>
lpVars == <<lp_pc, lp_kind, lp_n, lp_len, lp_body, lp_out>>
pvVars == <<pv_pc, pv_orig, pv_value, pv_bit_offset, pv_src, pv_pos, pv_sink, pv_pendings,
           pv_out>>

vars == <<vnVars, frVars, rdVars, limVars, ccVars, nbtVars, cfbVars, pkVars, lpVars, pvVars>>

\* Each specification below runs one component; the others stay as built.
VnIdle ==
    /\ vn_pc = "idle"
    /\ vn_impl = "sync"
    /\ vn_value = <<>>
    /\ vn_sink = <<>>
    /\ vn_size = 0
    /\ vn_read = [ok |-> FALSE, err |-> "", value |-> <<>>, consumed |-> 0]

FrIdle ==
    /\ fr_pc = "idle"
    /\ compression = TRUE
    /\ enc_threshold = -1
    /\ dec_threshold = -1
    /\ fr_frame = [packet_id |-> 0, data |-> <<>>]
    /\ fr_wire = <<>>
    /\ fr_tampered = FALSE
    /\ fr_out = [kind |-> "none"]

RdIdle ==
    /\ rd_src = <<>>
    /\ rd_pos = 0
    /\ rd_eof = FALSE
    /\ rd_sent = <<>>
    /\ buffer = <<>>
    /\ rd_future = "idle"
    /\ ready_size = <<>>
    /\ rd_results = <<>>
    /\ rd_polls = 0
    /\ rd_dropped = FALSE

LimIdle ==
    /\ lim_soft = FALSE
    /\ overflow_checks = FALSE
    /\ limit = 0
    /\ current = 0
    /\ lim_src = <<>>
    /\ lim_pos = 0
    /\ rbuf = [filled |-> <<>>, capacity |-> 0]
    /\ lim_last = [kind |-> "none", polled |-> FALSE, current |-> 0, pos |-> 0,
                   filled |-> <<>>, remaining |-> 0]

CcIdle ==
    /\ cc_pc = "idle"
    /\ cc_type = "none"
    /\ cc_value = <<>>
    /\ cc_bytes = <<>>
    /\ cc_size = [kind |-> "none", n |-> 0]

NbtIdle ==
    /\ nbt_pc = "idle"
    /\ nbt_impl = "core"
    /\ nbt_tag = [bit |-> 0]
    /\ nbt_bit = 0
    /\ nbt_limit = 0
    /\ nbt_depth = 0
    /\ nbt_wire = <<>>
    /\ nbt_size = 0
    /\ nbt_out = [ok |-> FALSE]


CfbIdle ==
    /\ ew_inner = "cursor"
    /\ ew_plain = <<>>
    /\ ew_done = 0
    /\ ew_short = 0
    /\ ew_stream = <<>>
    /\ cfb_wire = <<>>
    /\ dr_pos = 0
    /\ dr_stream = <<>>
    /\ dr_out = <<>>


PkIdle ==
    /\ pk_pc = "idle"
    /\ pk_type = [kind |-> "none"]
    /\ pk_a = <<>>
    /\ pk_b = <<>>
    /\ pk_size_a = [kind |-> "none", n |-> 0]
    /\ pk_size_b = [kind |-> "none", n |-> 0]
    /\ pk_bytes_a = <<>>
    /\ pk_bytes_b = <<>>
    /\ pk_src = <<>>
    /\ pk_dec = [ok |-> FALSE]


LpIdle ==
    /\ lp_pc = "idle"
    /\ lp_kind = "String"
    /\ lp_n = 0
    /\ lp_len = 0
    /\ lp_body = 0
    /\ lp_out = [ok |-> FALSE]


PvIdle ==
    /\ pv_pc = "idle"
    /\ pv_orig = <<>>
    /\ pv_value = <<>>
    /\ pv_bit_offset = 0
    /\ pv_src = <<>>
    /\ pv_pos = 0
    /\ pv_sink = <<>>
    /\ pv_pendings = 0
    /\ pv_out = [ok |-> FALSE]

-----------------------------------------------------------------------------
(* Bit vectors and bytes *)

I32Bits == 32
I64Bits == 64
VarIntBitLimit == 35
VarLongBitLimit == 70

Pow2(n) == 2 ^ n

Zeros(n) == [i \in 1..n |-> 0]

\* The bit pattern of a Rust i32 (`v as u32`): two's complement, 32 bits.
\* TLA+'s \div floors and % is non-negative, which is the arithmetic shift.
I32ToBits(v) ==
    [i \in 1..I32Bits |-> IF i = I32Bits THEN (IF v < 0 THEN 1 ELSE 0)
                          ELSE (v \div Pow2(i - 1)) % 2]

\* The i32 a 32-bit pattern stands for (`u as i32`).
RECURSIVE BitsToNat(_, _)
BitsToNat(b, n) == IF n = 0 THEN 0 ELSE b[n] * Pow2(n - 1) + BitsToNat(b, n - 1)

BitsToI32(b) ==
    IF b[I32Bits] = 1
    THEN BitsToNat(b, I32Bits - 1) - 1073741824 - 1073741824
    ELSE BitsToNat(b, I32Bits - 1)

\* `i32 as i64` / `i32 as usize`: sign extension to w bits.
SignExtend(b, w) == [i \in 1..w |-> IF i <= Len(b) THEN b[i] ELSE b[Len(b)]]

\* `x as u8`: the low eight bits.
LowByte(b) == BitsToNat(b, 8)

\* `(x & 0x7F) as u8`: the continuation bit left out
LowSevenOnly(b) == BitsToNat(b, 7)

\* `(x & 0x7F | 0x80) as u8`
LowSevenCont(b) == BitsToNat(b, 7) + 128

\* The mask with one bit too few: 0xFFFFFF00.
AndCheckByteMask(b) == \A i \in 9..Len(b) : b[i] = 0

\* `x & $and_check == 0`, $and_check = 0xFFFFFF80 / 0xFFFFFFFFFFFFFF80
AndCheckIsZero(b) == \A i \in 8..Len(b) : b[i] = 0

\* `x.overflowing_shr(7).0` on an unsigned: logical shift, zeros come in.
Shr7(b) == [i \in 1..Len(b) |-> IF i + 7 <= Len(b) THEN b[i + 7] ELSE 0]

\* `<$typing>::from(byte & 0b0111_1111).overflowing_shl(bit_offset).0`:
\* the shift amount is taken modulo the width, bits shifted out are lost.
ShlSeven(byte, bit_offset, w) ==
    LET off == bit_offset % w
    IN  [i \in 1..w |-> IF i - 1 >= off /\ i - 1 < off + 7
                        THEN ((byte % 128) \div Pow2(i - 1 - off)) % 2
                        ELSE 0]

OrBits(a, b) == [i \in 1..Len(a) |-> IF a[i] = 1 \/ b[i] = 1 THEN 1 ELSE 0]


-----------------------------------------------------------------------------
(* VarNum codec: the futures of transport/buffer/var_num.rs, polled against *)
(* a source / sink that is always ready (a Cursor).                         *)

RECURSIVE SizeVarNumLoop(_, _)
SizeVarNumLoop(temp, size) ==
    IF AndCheckIsZero(temp) THEN size + 1
    ELSE SizeVarNumLoop(Shr7(temp), size + 1)

\* size_var_int / size_var_long: `var_num as $sub_typing`, then the loop.
size_var_num(var_num) == SizeVarNumLoop(var_num, 0)

RECURSIVE WriteVarNumLoop(_, _)
WriteVarNumLoop(value, written) ==
    IF AndCheckIsZero(value) THEN Append(written, LowByte(value))
    ELSE WriteVarNumLoop(Shr7(value), Append(written, LowSevenCont(value)))

\* WriteVarInt::poll / WriteVarLong::poll run to completion: the bytes that
\* reach the writer.
write_var_num(value) == WriteVarNumLoop(value, <<>>)

RECURSIVE ReadVarNumLoop(_, _, _, _, _, _)
ReadVarNumLoop(src, pos, value, bit_offset, w, bit_limit) ==
    IF bit_offset >= bit_limit
    THEN [ok |-> FALSE, err |-> "VarInt too large", value |-> value, consumed |-> pos]
    ELSE IF pos >= Len(src)
    THEN [ok |-> FALSE, err |-> "EOF", value |-> value, consumed |-> pos]
    ELSE LET byte == src[pos + 1]
             next == OrBits(value, ShlSeven(byte, bit_offset, w))
         IN  IF byte < 128
             THEN [ok |-> TRUE, err |-> "", value |-> next, consumed |-> pos + 1]
             ELSE ReadVarNumLoop(src, pos + 1, next, bit_offset + 7, w, bit_limit)

read_var_num_one_more(src, w, bit_limit) ==
    ReadVarNumLoop(src, 0, Zeros(w), 0, w, bit_limit + 7)

\* ReadVarInt::poll / ReadVarLong::poll run to completion on the bytes src.
read_var_num(src, w, bit_limit) == ReadVarNumLoop(src, 0, Zeros(w), 0, w, bit_limit)

-----------------------------------------------------------------------------
(* VarNum codec: the synchronous functions of extension.rs, which the frame *)
(* pipeline and the buffered transport reader call.                         *)

RECURSIVE ExtReadLoop(_, _, _, _, _, _)
ExtReadLoop(src, pos, value, bit_offset, w, bit_limit) ==
    IF bit_offset = bit_limit
    THEN [ok |-> FALSE, err |-> "Var int too big, could not find end.",
          value |-> value, consumed |-> pos]
    ELSE IF pos >= Len(src)
    THEN [ok |-> FALSE, err |-> "Invalid read, no byte ready.",
          value |-> value, consumed |-> pos]
    ELSE LET byte == src[pos + 1]
             next == OrBits(value, ShlSeven(byte, bit_offset, w))
         IN  IF byte < 128
             THEN [ok |-> TRUE, err |-> "", value |-> next, consumed |-> pos + 1]
             ELSE ExtReadLoop(src, pos + 1, next, bit_offset + 7, w, bit_limit)

\* read_var_int_sync / read_var_long_sync on a reader holding src.
read_var_number(src, w, bit_limit) == ExtReadLoop(src, 0, Zeros(w), 0, w, bit_limit)

read_var_int_sync(src) == read_var_number(src, I32Bits, VarIntBitLimit)

RECURSIVE ExtSizeLoop(_, _)
ExtSizeLoop(temp, size) ==
    IF AndCheckIsZero(temp) THEN size + 1
    ELSE ExtSizeLoop(Shr7(temp), size + 1)

\* extension::size_var_int / size_var_long
ext_size_var_num(var) == ExtSizeLoop(var, 0)

RECURSIVE ExtWriteLoop(_, _)
ExtWriteLoop(temp, written) ==
    IF AndCheckIsZero(temp) THEN Append(written, LowByte(temp))
    ELSE ExtWriteLoop(Shr7(temp), Append(written, LowSevenCont(temp)))

\* extension::write_var_int_sync / write_var_long_sync
write_var_num_sync(var) == ExtWriteLoop(var, <<>>)

\* A usize length or an i32 given as a TLC integer, written as a VarInt.
write_var_int_sync(v) == write_var_num_sync(I32ToBits(v))

ext_size_var_int(v) == ext_size_var_num(I32ToBits(v))

-----------------------------------------------------------------------------
(* The values the VarNum runs are tried on: for every bit position k, the   *)
(* patterns with bit k as the highest set bit (only bit k; bits 0..k; bit k *)
(* and bit 0), the zero pattern, and the values of the repository's tests.  *)

OnlyBit(k, w) == [i \in 1..w |-> IF i = k THEN 1 ELSE 0]
LowOnes(k, w) == [i \in 1..w |-> IF i <= k THEN 1 ELSE 0]
EndBits(k, w) == [i \in 1..w |-> IF i = k \/ i = 1 THEN 1 ELSE 0]

KnownGood == {25, 55324, -8877777, 2147483647, -2147483647 - 1}

VarNumSamples(w) ==
    {Zeros(w)} \cup {OnlyBit(k, w) : k \in 1..w} \cup {LowOnes(k, w) : k \in 1..w}
               \cup {EndBits(k, w) : k \in 1..w}

VarIntSamples == VarNumSamples(I32Bits) \cup {I32ToBits(v) : v \in KnownGood}
VarLongSamples == VarNumSamples(I64Bits) \cup {SignExtend(I32ToBits(v), I64Bits) : v \in KnownGood}

BitLimitOf(value) == IF Len(value) = I32Bits THEN VarIntBitLimit ELSE VarLongBitLimit

VnInit ==
    /\ vn_pc = "start"
    /\ vn_impl \in {"future", "sync"}
    /\ vn_value \in VarIntSamples \cup VarLongSamples
    /\ vn_sink = <<>>
    /\ vn_size = 0
    /\ vn_read = [ok |-> FALSE, err |-> "", value |-> <<>>, consumed |-> 0]

\* write_var_int(v) / write_var_long(v) into an empty Vec, and the size
\* function asked for the same value.
VnWrite ==
    /\ vn_pc = "start"
    /\ vn_sink' = IF vn_impl = "future" THEN write_var_num(vn_value)
                  ELSE write_var_num_sync(vn_value)
    /\ vn_size' = IF vn_impl = "future" THEN size_var_num(vn_value)
                  ELSE ext_size_var_num(vn_value)
    /\ vn_pc' = "written"
    /\ UNCHANGED <<vn_impl, vn_value, vn_read>>
    /\ UNCHANGED <<frVars, rdVars, limVars, ccVars, nbtVars, cfbVars, pkVars, lpVars, pvVars>>

\* read_var_int / read_var_long on a Cursor over the written bytes.
VnRead ==
    /\ vn_pc = "written"
    /\ vn_read' = IF vn_impl = "future"
                  THEN read_var_num(vn_sink, Len(vn_value), BitLimitOf(vn_value))
                  ELSE read_var_number(vn_sink, Len(vn_value), BitLimitOf(vn_value))
    /\ vn_pc' = "read"
    /\ UNCHANGED <<vn_impl, vn_value, vn_sink, vn_size>>
    /\ UNCHANGED <<frVars, rdVars, limVars, ccVars, nbtVars, cfbVars, pkVars, lpVars, pvVars>>

\* the most bytes a VarNum of this bit limit has
MaxVarNumBytes(bit_limit) == bit_limit \div 7

\* what is written for the value, cut short before its last byte
Truncations(value) ==
    {SubSeq(write_var_num(value), 1, k) : k \in 0..(Len(write_var_num(value)) - 1)}

\* as many continuation bytes as a VarNum may have bytes, and what follows
OverLong(bit_limit) ==
    {[i \in 1..MaxVarNumBytes(bit_limit) |-> b] \o tail :
        b \in {128, 255}, tail \in {<<>>, <<1>>, <<129>>}}

\* read_var_int / read_var_long on a Cursor over bytes that are no VarNum
VnReadCrafted ==
    /\ vn_pc = "start"
    /\ \E src \in Truncations(vn_value) \cup OverLong(BitLimitOf(vn_value)) :
          /\ vn_sink' = src
          /\ vn_read' = IF vn_impl = "future"
                        THEN read_var_num(src, Len(vn_value), BitLimitOf(vn_value))
                        ELSE read_var_number(src, Len(vn_value), BitLimitOf(vn_value))
    /\ vn_pc' = "crafted"
    /\ UNCHANGED <<vn_impl, vn_value, vn_size>>
    /\ UNCHANGED <<frVars, rdVars, limVars, ccVars, nbtVars, cfbVars, pkVars, lpVars, pvVars>>

VnNext == VnWrite \/ VnRead \/ VnReadCrafted

InitVarNum == VnInit /\ FrIdle /\ RdIdle /\ LimIdle /\ CcIdle /\ NbtIdle /\ CfbIdle /\ PkIdle /\ LpIdle /\ PvIdle

SpecVarNum == InitVarNum /\ [][VnNext]_vars

\* C2: for every 32-bit (64-bit) value v, reading what write_var_int
\* (write_var_long) wrote gives back v and consumes every written byte, and
\* size_var_int (size_var_long) of v is the number of bytes written.
C2_VarNumRoundTrip ==
    /\ vn_pc \in {"written", "read"} => vn_size = Len(vn_sink)
    /\ vn_pc = "read" =>
          /\ vn_read.ok
          /\ vn_read.value = vn_value
          /\ vn_read.consumed = Len(vn_sink)

\* the position of the highest set bit of a pattern, 0 for the zero pattern
HighestBit(b) ==
    IF \A i \in 1..Len(b) : b[i] = 0 THEN 0
    ELSE CHOOSE i \in 1..Len(b) : b[i] = 1 /\ \A j \in (i + 1)..Len(b) : b[j] = 0

\* how many 7-bit groups hold every set bit: no trailing all-zero group
GroupCount(b) == IF HighestBit(b) = 0 THEN 1 ELSE (HighestBit(b) + 6) \div 7

\* the i-th 7-bit group of the unsigned pattern, low-order group first
Group(b, i) ==
    BitsToNat([j \in 1..7 |-> IF 7 * (i - 1) + j <= Len(b) THEN b[7 * (i - 1) + j] ELSE 0], 7)

\* the groups as bytes, 0x80 on every byte but the last
Groups(b) == [i \in 1..GroupCount(b) |-> Group(b, i) + (IF i < GroupCount(b) THEN 128 ELSE 0)]

\* the vectors of the repository's tests
KnownBytes ==
    {<<25, <<25>>>>, <<55324, <<156, 176, 3>>>>, <<-8877777, <<175, 146, 226, 251, 15>>>>,
     <<2147483647, <<255, 255, 255, 255, 7>>>>, <<-2147483647 - 1, <<128, 128, 128, 128, 8>>>>}

\* C22: write_var_int emits the 7-bit groups of the value's unsigned bit
\* pattern, low-order group first, 0x80 on every byte except the last and no
\* trailing all-zero group; read_var_int consumes exactly those bytes; the
\* known values give the known bytes.
C22_SevenBitGroups ==
    (vn_pc \in {"written", "read"} /\ Len(vn_value) = I32Bits) =>
        /\ vn_sink = Groups(vn_value)
        /\ vn_pc = "read" => (vn_read.ok /\ vn_read.consumed = Len(vn_sink))
        /\ \A kb \in KnownBytes : vn_value = I32ToBits(kb[1]) => vn_sink = kb[2]

\* the lowest 32-bit value was written by the future and read back
C22_Witness ==
    /\ vn_pc = "read"
    /\ vn_impl = "future"
    /\ vn_value = I32ToBits(-2147483647 - 1)
    /\ vn_sink = <<128, 128, 128, 128, 8>>
    /\ vn_read.consumed = 5

\* A negative 32-bit value went through the five-byte encoding and back.
C2_Witness ==
    /\ vn_pc = "read"
    /\ vn_read.ok
    /\ vn_value = I32ToBits(-8877777)
    /\ vn_sink = <<175, 146, 226, 251, 15>>
    /\ vn_impl = "sync"


-----------------------------------------------------------------------------
(* Frame pipeline: FrameEncoder and FrameDecoder of transport/frame.rs.     *)

\* flate2's zlib stream, which the repository only calls, stands here as a
\* two-byte header followed by (run length, byte) pairs: a stream that is
\* not the input, that decodes back to it, and that can be malformed.
ZlibHeader == <<120, 156>>

RunOf(d) ==
    LET same == {n \in 1..Len(d) : \A i \in 1..n : d[i] = d[1]}
    IN  CHOOSE n \in same : \A m \in same : m <= n

RECURSIVE RunLengths(_)
RunLengths(d) ==
    IF d = <<>> THEN <<>>
    ELSE <<RunOf(d), d[1]>> \o RunLengths(SubSeq(d, RunOf(d) + 1, Len(d)))

\* ZlibEncoder::new(data, Compression::default()).read_to_end(..)
ZlibEncode(data) == ZlibHeader \o RunLengths(data)

RECURSIVE Expand(_)
Expand(c) ==
    IF c = <<>> THEN <<>>
    ELSE [i \in 1..c[1] |-> c[2]] \o Expand(SubSeq(c, 3, Len(c)))

\* ZlibDecoder::new(cursor).read_to_end(..): the bytes, or an io error.
ZlibDecode(c) ==
    IF \/ Len(c) < 2
       \/ SubSeq(c, 1, 2) # ZlibHeader
       \/ Len(c) % 2 # 0
       \/ \E i \in 2..(Len(c) \div 2) : c[2 * i - 1] = 0
    THEN [ok |-> FALSE, data |-> <<>>]
    ELSE [ok |-> TRUE, data |-> Expand(SubSeq(c, 3, Len(c)))]

\* `data.len() < self.compression_threshold as usize`: a negative isize
\* becomes a usize above every length.
LenBelowThreshold(len, threshold) == IF threshold < 0 THEN TRUE ELSE len < threshold

\* FrameEncoder::create_uncompressed_packet
create_uncompressed_packet(frame) == write_var_int_sync(frame.packet_id) \o frame.data

\* FrameEncoder::create_compressed_packet_frame
create_compressed_packet_frame(threshold, frame) ==
    LET data == write_var_int_sync(frame.packet_id) \o frame.data
    IN  IF LenBelowThreshold(Len(data), threshold)
        THEN [decompressed_data_length |-> 0, compressed_data |-> data]
        ELSE [decompressed_data_length |-> Len(data), compressed_data |-> ZlibEncode(data)]

\* FrameEncoder::process
FrameEncoder_process(threshold, frame) ==
    IF compression
    THEN LET cf == create_compressed_packet_frame(threshold, frame)
         IN  write_var_int_sync(cf.decompressed_data_length) \o cf.compressed_data
    ELSE create_uncompressed_packet(frame)

Err(msg) == [kind |-> "error", err |-> msg]
Panic(msg) == [kind |-> "panic", err |-> msg]
Frame(id, data) == [kind |-> "frame", packet_id |-> id, data |-> data]

\* The tail of both decoders: Cursor::new(data), the packet id, the rest.
ReadIdThenRest(data) ==
    LET r == read_var_int_sync(data)
    IN  IF ~r.ok THEN Err(r.err)
        ELSE Frame(BitsToI32(r.value), SubSeq(data, r.consumed + 1, Len(data)))

\* FrameDecoder::read_raw_packet
read_raw_packet(data) == ReadIdThenRest(data)

\* FrameDecoder::decompress_frame. `whole` is the Vec under the cursor and
\* `pos` the cursor's position: into_inner gives back the whole Vec, while
\* ZlibDecoder reads on from the position.
decompress_frame(decompressed_data_length, whole, pos) ==
    IF decompressed_data_length = 0
    THEN ReadIdThenRest(whole)
    ELSE IF decompressed_data_length < 0
    THEN Panic("capacity overflow")
    ELSE LET z == ZlibDecode(SubSeq(whole, pos + 1, Len(whole)))
         IN  IF ~z.ok THEN Err("corrupt deflate stream")
             ELSE IF Len(z.data) # decompressed_data_length
             THEN Err("Actual decoded is not the same as data length")
             ELSE ReadIdThenRest(z.data)

\* FrameDecoder::process
FrameDecoder_process(threshold, input) ==
    IF compression /\ threshold >= 0
    THEN LET r == read_var_int_sync(input)
         IN  IF ~r.ok THEN Err(r.err)
             ELSE decompress_frame(BitsToI32(r.value), input, r.consumed)
    ELSE read_raw_packet(input)

MaxThreshold == 4
MaxData == 3
PacketIds == {0, 5, 300}
DataBytes == {0, 7}

RECURSIVE SeqsUpTo(_, _)
SeqsUpTo(S, n) ==
    IF n = 0 THEN {<<>>}
    ELSE LET shorter == SeqsUpTo(S, n - 1)
         IN  shorter \cup {Append(q, x) : q \in {t \in shorter : Len(t) = n - 1}, x \in S}

FrInit ==
    /\ fr_pc = "start"
    /\ compression \in BOOLEAN
    /\ enc_threshold \in -1..MaxThreshold
    /\ dec_threshold \in {-1, 0, enc_threshold}
    /\ compression = FALSE => enc_threshold = -1 /\ dec_threshold = -1
    /\ fr_frame \in [packet_id : PacketIds, data : SeqsUpTo(DataBytes, MaxData)]
    /\ fr_wire = <<>>
    /\ fr_tampered = FALSE
    /\ fr_out = [kind |-> "none"]

FrEncode ==
    /\ fr_pc = "start"
    /\ fr_wire' = FrameEncoder_process(enc_threshold, fr_frame)
    /\ fr_pc' = "encoded"
    /\ UNCHANGED <<compression, enc_threshold, dec_threshold, fr_frame, fr_tampered, fr_out>>
    /\ UNCHANGED <<vnVars, rdVars, limVars, ccVars, nbtVars, cfbVars, pkVars, lpVars, pvVars>>

\* The declared decompressed length is rewritten in transit (a corrupted or
\* hostile frame); the bytes after it are left as the encoder wrote them.
FrTamper ==
    /\ fr_pc = "encoded"
    /\ compression /\ enc_threshold >= 0 /\ ~fr_tampered
    /\ \E declared \in -1..(MaxData + 3) :
          LET r == read_var_int_sync(fr_wire)
          IN  /\ declared # BitsToI32(r.value)
              /\ fr_wire' = write_var_int_sync(declared)
                              \o SubSeq(fr_wire, r.consumed + 1, Len(fr_wire))
    /\ fr_tampered' = TRUE
    /\ UNCHANGED <<fr_pc, compression, enc_threshold, dec_threshold, fr_frame, fr_out>>
    /\ UNCHANGED <<vnVars, rdVars, limVars, ccVars, nbtVars, cfbVars, pkVars, lpVars, pvVars>>

FrDecode ==
    /\ fr_pc = "encoded"
    /\ fr_out' = FrameDecoder_process(dec_threshold, fr_wire)
    /\ fr_pc' = "decoded"
    /\ UNCHANGED <<compression, enc_threshold, dec_threshold, fr_frame, fr_wire, fr_tampered>>
    /\ UNCHANGED <<vnVars, rdVars, limVars, ccVars, nbtVars, cfbVars, pkVars, lpVars, pvVars>>

FrNext == FrEncode \/ FrTamper \/ FrDecode

InitFrame == FrInit /\ VnIdle /\ RdIdle /\ LimIdle /\ CcIdle /\ NbtIdle /\ CfbIdle /\ PkIdle /\ LpIdle /\ PvIdle

SpecFrame == InitFrame /\ [][FrNext]_vars


Payload(frame) == write_var_int_sync(frame.packet_id) \o frame.data

\* C5: with compression enabled at threshold t >= 0 in encoder and decoder,
\* the encoder emits a payload shorter than t as the marker 0 followed by the
\* unmodified bytes and any other payload as its length followed by the zlib
\* stream, and the decoder returns the original frame in both cases.
C5_CompressionRoundTrip ==
    (compression /\ enc_threshold >= 0 /\ dec_threshold = enc_threshold /\ ~fr_tampered) =>
        /\ fr_pc \in {"encoded", "decoded"} =>
              fr_wire = IF Len(Payload(fr_frame)) < enc_threshold
                        THEN <<0>> \o Payload(fr_frame)
                        ELSE write_var_int_sync(Len(Payload(fr_frame)))
                                \o ZlibEncode(Payload(fr_frame))
        /\ fr_pc = "decoded" => fr_out = Frame(fr_frame.packet_id, fr_frame.data)

\* C6: with compression disabled (the same negative threshold in encoder and
\* decoder) the encoder emits the packet id and the data with no
\* declared-length marker, and the decoder reads back the original frame.
C6_DisabledRoundTrip ==
    (enc_threshold < 0 /\ dec_threshold = enc_threshold) =>
        /\ fr_pc \in {"encoded", "decoded"} => fr_wire = Payload(fr_frame)
        /\ fr_pc = "decoded" => fr_out = Frame(fr_frame.packet_id, fr_frame.data)

\* C7: a decoder with compression enabled takes the bytes after a declared
\* length of 0 as the raw payload, and for any other declared length returns
\* a size-mismatch error whenever the stream after it decompresses to a
\* different number of bytes.
C7_DeclaredLength ==
    (compression /\ dec_threshold >= 0 /\ fr_pc = "decoded") =>
        LET r == read_var_int_sync(fr_wire)
            declared == BitsToI32(r.value)
            rest == SubSeq(fr_wire, r.consumed + 1, Len(fr_wire))
            z == ZlibDecode(rest)
        IN  r.ok =>
              /\ declared = 0 => fr_out = ReadIdThenRest(rest)
              /\ (declared # 0 /\ z.ok /\ Len(z.data) # declared) =>
                    fr_out = Err("Actual decoded is not the same as data length")

-----------------------------------------------------------------------------
(* Outer framing: FrameSizeAppender (transport/buffered_writer.rs) and the  *)
(* buffered transport reader (transport/buffered_reader.rs).                *)

\* FrameSizeAppender::process
FrameSizeAppender_process(input) == write_var_int_sync(Len(input)) \o input

Out(kind, bytes) == [kind |-> kind, bytes |-> bytes]

\* The prefix parse that leaves nothing behind on failure: it advances past
\* whatever the cursor consumed even when no VarInt was found.
TryReadSizeConsuming(buf) ==
    LET r == read_var_int_sync(buf)
    IN  [found |-> r.ok,
         size |-> IF r.ok THEN BitsToI32(r.value) ELSE 0,
         rest |-> SubSeq(buf, r.consumed + 1, Len(buf))]

\* poll, `None =>` arm: read_var_int_sync on a cursor over the buffered
\* bytes; on Ok the buffer advances past the prefix, on Err it is kept.
TryReadSize(buf) ==
    LET r == read_var_int_sync(buf)
    IN  IF r.ok
        THEN [found |-> TRUE, size |-> BitsToI32(r.value),
              rest |-> SubSeq(buf, r.consumed + 1, Len(buf))]
        ELSE [found |-> FALSE, size |-> 0, rest |-> buf]

\* poll, from `if size <= me.current_buffer.len()`: size is `i32 as usize`,
\* so a negative one is above every length; chunks(0) panics.
CheckReady(buf, size) ==
    IF size >= 0 /\ size <= Len(buf)
    THEN IF size = 0
         THEN [buffer |-> buf, ready_size |-> <<size>>,
               out |-> Out("panic", <<>>)]
         ELSE [buffer |-> SubSeq(buf, size + 1, Len(buf)), ready_size |-> <<size>>,
               out |-> Out("chunk", SubSeq(buf, 1, size))]
    ELSE [buffer |-> buf, ready_size |-> <<size>>, out |-> Out("pending", <<>>)]

\* ReadTransportPacket::poll once the source has put `delivered` (at least
\* one byte) into the buffer.
PollStep(buf0, rs, delivered) ==
    LET buf == buf0 \o delivered
    IN  IF rs = <<>>
        THEN LET t == TryReadSize(buf)
             IN  IF t.found THEN CheckReady(t.rest, t.size)
                 ELSE [buffer |-> t.rest, ready_size |-> <<>>, out |-> Out("pending", <<>>)]
        ELSE CheckReady(buf, rs[1])

MaxPayload == 2
MaxFrames == 2
\* rd_polls stops counting here
MaxPolls == 4
\* long enough for a two-byte length prefix
LongLen == 128
PayloadBytes == {1, 129}

Payloads == SeqsUpTo(PayloadBytes, MaxPayload)

\* A frame whose length prefix has a padding byte: the same length in a
\* two-byte VarInt, which read_var_int_sync accepts.
PaddedFrame(p) == <<128 + Len(p), 0>> \o p

RECURSIVE Concat(_)
Concat(ss) ==
    IF Len(ss) = 0 THEN <<>>
    ELSE IF Len(ss) = 1 THEN ss[1]
    ELSE LET half == Len(ss) \div 2
         IN  Concat(SubSeq(ss, 1, half)) \o Concat(SubSeq(ss, half + 1, Len(ss)))

FrameLists == UNION {[1..n -> Payloads] : n \in 1..MaxFrames}

RdInit ==
    /\ \/ /\ rd_sent \in FrameLists
          /\ rd_src = Concat([i \in 1..Len(rd_sent) |-> FrameSizeAppender_process(rd_sent[i])])
       \/ /\ rd_sent \in {<<p>> : p \in Payloads \ {<<>>}}
          /\ rd_src = PaddedFrame(rd_sent[1])
       \/ /\ rd_sent = <<[i \in 1..LongLen |-> 1]>>
          /\ rd_src = FrameSizeAppender_process(rd_sent[1])
    /\ rd_pos = 0
    /\ rd_eof \in BOOLEAN
    /\ buffer = <<>>
    /\ rd_future = "none"
    /\ ready_size = <<>>
    /\ rd_results = <<>>
    /\ rd_polls = 0
    /\ rd_dropped = FALSE

\* DraxTransportPipeline::read_transport_packet: a new future, ready_size None.
RdCall ==
    /\ rd_future = "none"
    /\ Len(rd_results) <= MaxFrames
    /\ rd_future' = "pending"
    /\ ready_size' = <<>>
    /\ rd_polls' = 0
    /\ UNCHANGED <<rd_src, rd_pos, rd_eof, rd_sent, buffer, rd_results, rd_dropped>>
    /\ UNCHANGED <<vnVars, frVars, limVars, ccVars, nbtVars, cfbVars, pkVars, lpVars, pvVars>>

\* poll with a source that has bytes: it delivers n of them, n >= 1 (a short
\* read, or as many as the spare capacity takes).
RdPoll ==
    /\ rd_future = "pending"
    /\ \E n \in 1..(Len(rd_src) - rd_pos) :
          LET step == PollStep(buffer, ready_size, SubSeq(rd_src, rd_pos + 1, rd_pos + n))
          IN  /\ rd_pos' = rd_pos + n
              /\ buffer' = step.buffer
              /\ ready_size' = step.ready_size
              /\ rd_future' = CASE step.out.kind = "pending" -> "pending"
                                [] step.out.kind = "panic" -> "panicked"
                                [] OTHER -> "none"
              /\ rd_results' = IF step.out.kind = "pending" THEN rd_results
                               ELSE Append(rd_results, step.out)
    /\ rd_polls' = IF rd_polls < MaxPolls THEN rd_polls + 1 ELSE rd_polls
    /\ UNCHANGED <<rd_src, rd_eof, rd_sent, rd_dropped>>
    /\ UNCHANGED <<vnVars, frVars, limVars, ccVars, nbtVars, cfbVars, pkVars, lpVars, pvVars>>

\* poll with a drained source at end-of-stream: the read fills nothing
\* (n == 0) and the poll returns Err(EOF) before it looks at the buffer.
\* (A drained source that is not at end-of-stream returns Pending and the
\* poll changes nothing.)
RdPollEof ==
    /\ rd_future = "pending"
    /\ rd_pos = Len(rd_src)
    /\ rd_eof
    /\ rd_future' = "none"
    /\ rd_results' = Append(rd_results, Out("EOF", <<>>))
    /\ rd_polls' = IF rd_polls < MaxPolls THEN rd_polls + 1 ELSE rd_polls
    /\ UNCHANGED <<rd_src, rd_pos, rd_eof, rd_sent, buffer, ready_size, rd_dropped>>
    /\ UNCHANGED <<vnVars, frVars, limVars, ccVars, nbtVars, cfbVars, pkVars, lpVars, pvVars>>

RdNext == RdCall \/ RdPoll \/ RdPollEof

InitReader == RdInit /\ VnIdle /\ FrIdle /\ LimIdle /\ CcIdle /\ NbtIdle /\ CfbIdle /\ PkIdle /\ LpIdle /\ PvIdle

SpecReader == InitReader /\ [][RdNext]_vars

\* The ReadTransportPacket future is dropped before it completed: ready_size
\* is a field of the future and goes with it, the buffer is the pipeline's and
\* stays as the polls left it.
RdDrop ==
    /\ rd_future = "pending"
    /\ rd_polls >= 1
    /\ rd_future' = "none"
    /\ ready_size' = <<>>
    /\ rd_dropped' = (rd_dropped \/ ready_size # <<>>)
    /\ UNCHANGED <<rd_src, rd_pos, rd_eof, rd_sent, buffer, rd_results, rd_polls>>
    /\ UNCHANGED <<vnVars, frVars, limVars, ccVars, nbtVars, cfbVars, pkVars, lpVars, pvVars>>

\* a stream of frames, or one that starts with an over-length VarInt where a
\* length prefix is due
RdInitAdverse ==
    /\ \/ /\ rd_sent \in FrameLists
          /\ rd_src = Concat([i \in 1..Len(rd_sent) |-> FrameSizeAppender_process(rd_sent[i])])
       \/ /\ rd_sent = <<>>
          /\ rd_src \in OverLong(VarIntBitLimit)
    /\ rd_pos = 0
    /\ rd_eof \in BOOLEAN
    /\ buffer = <<>>
    /\ rd_future = "none"
    /\ ready_size = <<>>
    /\ rd_results = <<>>
    /\ rd_polls = 0
    /\ rd_dropped = FALSE

RdAdverseNext == RdCall \/ RdPoll \/ RdPollEof \/ RdDrop

InitReaderAdverse ==
    RdInitAdverse
        /\ VnIdle /\ FrIdle /\ LimIdle /\ CcIdle /\ NbtIdle /\ CfbIdle /\ PkIdle /\ LpIdle /\ PvIdle

\* the reader with callers that drop futures and peers that send no frames
SpecReaderAdverse == InitReaderAdverse /\ [][RdAdverseNext]_vars


\* What one poll returns, and leaves buffered, when the source delivers all
\* of src in a single read.
OneRead(src) == PollStep(<<>>, <<>>, src)

\* C3: the first read_transport_packet on a stream yields the same outcome
\* (the same bytes handed to the pipeline) and leaves the same bytes after
\* the frame boundary, however the source cut the stream into reads, as it
\* does when the source delivers the whole stream in one read.
C3_ChunkedEqualsOneRead ==
    Len(rd_results) >= 1 =>
        /\ rd_results[1] = OneRead(rd_src).out
        /\ (Len(rd_results) = 1 /\ rd_future # "pending") =>
              buffer \o SubSeq(rd_src, rd_pos + 1, Len(rd_src)) = OneRead(rd_src).buffer

\* A two-byte length prefix and a two-byte payload delivered one byte per
\* poll: the prefix was split across reads, and so was the payload.
C3_Witness ==
    /\ rd_src = PaddedFrame(<<1, 129>>)
    /\ rd_polls = 4
    /\ rd_results = <<Out("chunk", <<1, 129>>)>>
    /\ buffer = <<>>

\* The buffer holds a complete frame: a parsable length prefix followed by
\* at least that many bytes.
HoldsCompleteFrame(buf) ==
    LET t == TryReadSize(buf)
    IN  t.found /\ t.size >= 0 /\ t.size <= Len(t.rest)

NonEmptyFrames == \A i \in 1..Len(rd_sent) : rd_sent[i] # <<>>

\* C4: on a stream of complete non-empty frames, successive calls yield the
\* frames once each in arrival order, and a call made while a complete frame
\* is buffered yields that frame even when the source is at end-of-stream,
\* so no call fails while a complete frame is still buffered.
C4_EveryFrameOnceInOrder ==
    NonEmptyFrames =>
        /\ Len(rd_results) <= Len(rd_sent) =>
              \A i \in 1..Len(rd_results) : rd_results[i] = Out("chunk", rd_sent[i])
        /\ (rd_results # <<>> /\ HoldsCompleteFrame(buffer)) =>
              rd_results[Len(rd_results)].kind = "chunk"

\* C8: for every byte sequence b, FrameSizeAppender emits the VarInt of
\* len(b) followed by b, and the reader fed exactly that output hands the
\* pipeline exactly b and leaves its buffer empty.
C8_AppenderReaderRoundTrip ==
    (Len(rd_sent) = 1 /\ rd_src = FrameSizeAppender_process(rd_sent[1])) =>
        /\ LET r == read_var_int_sync(rd_src)
           IN  /\ r.ok /\ BitsToI32(r.value) = Len(rd_sent[1])
               /\ r.consumed = ext_size_var_int(Len(rd_sent[1]))
               /\ SubSeq(rd_src, r.consumed + 1, Len(rd_src)) = rd_sent[1]
        /\ Len(rd_results) >= 1 =>
              /\ rd_results[1] = Out("chunk", rd_sent[1])
              /\ (Len(rd_results) = 1 /\ rd_future # "pending") => buffer = <<>>


-----------------------------------------------------------------------------
(* ReadLimiter and SoftReadLimiter (drax_core transport/buffer.rs).         *)
(* usize values are kept modulo 2^64 as small signed integers: a negative x *)
(* stands for 2^64 + x, which is what `limit as usize` makes of a negative  *)
(* limit and what a wrapped subtraction leaves in `current`.                *)

\* a > b between two usize values in that representation
UsizeGt(a, b) == IF (a < 0) = (b < 0) THEN a > b ELSE a < 0

Remaining(buf) == buf.capacity - Len(buf.filled)

\* How many bytes the wrapped reader may put into `room` free bytes: none
\* when there is no room or it is at end-of-stream, else at least one.
SourceReads(room) ==
    LET avail == Len(lim_src) - lim_pos
        most == IF room < avail THEN room ELSE avail
    IN  IF most <= 0 THEN {0} ELSE 1..most

Delivered(m) == SubSeq(lim_src, lim_pos + 1, lim_pos + m)

Last(kind, polled) ==
    [kind |-> kind, polled |-> polled, current |-> current, pos |-> lim_pos,
     filled |-> rbuf.filled, remaining |-> Remaining(rbuf)]

MaxLimit == 3
MaxCap == 3
MaxSrc == 4
\* polls stop once `current` has wrapped this far below zero
MaxWrap == 3
\* k bytes a caller's buffer already holds
Prefilled(k) == [i \in 1..k |-> 255]

LimInit ==
    /\ lim_soft \in BOOLEAN
    /\ overflow_checks \in BOOLEAN
    /\ limit \in -1..MaxLimit
    /\ current = 0
    /\ lim_src = [i \in 1..MaxSrc |-> i]
    /\ lim_pos = 0
    /\ rbuf = [filled |-> <<>>, capacity |-> 0]
    /\ lim_last = [kind |-> "none", polled |-> FALSE, current |-> 0, pos |-> 0,
                   filled |-> <<>>, remaining |-> 0]

Alive == lim_last.kind # "panic" /\ current > -MaxWrap

\* The caller presents a ReadBuf of capacity c holding k bytes already.
LimNewBuf ==
    /\ Alive
    /\ \E c \in 1..MaxCap : \E k \in 0..c :
          rbuf' = [filled |-> Prefilled(k), capacity |-> c]
    /\ lim_last' = [kind |-> "none", polled |-> FALSE, current |-> 0, pos |-> 0,
                    filled |-> <<>>, remaining |-> 0]
    /\ UNCHANGED <<lim_soft, overflow_checks, limit, current, lim_src, lim_pos>>
    /\ UNCHANGED <<vnVars, frVars, rdVars, ccVars, nbtVars, cfbVars, pkVars, lpVars, pvVars>>

\* <ReadLimiter as AsyncRead>::poll_read
ReadLimiter_poll_read ==
    /\ ~lim_soft /\ Alive /\ rbuf.capacity > 0
    /\ IF UsizeGt(current + Remaining(rbuf), limit)
       THEN /\ lim_last' = Last("Read limit exceeded", FALSE)
            /\ UNCHANGED <<current, lim_pos, rbuf>>
       ELSE \E m \in SourceReads(Remaining(rbuf)) :
              /\ rbuf' = [rbuf EXCEPT !.filled = @ \o Delivered(m)]
              /\ lim_pos' = lim_pos + m
              /\ current' = current + m
              /\ lim_last' = Last("ok", TRUE)
    /\ UNCHANGED <<lim_soft, overflow_checks, limit, lim_src>>
    /\ UNCHANGED <<vnVars, frVars, rdVars, ccVars, nbtVars, cfbVars, pkVars, lpVars, pvVars>>

\* <SoftReadLimiter as AsyncRead>::poll_read
SoftReadLimiter_poll_read ==
    /\ lim_soft /\ Alive /\ rbuf.capacity > 0
    /\ LET filled_current == Len(rbuf.filled)
           allowance == limit - current
       IN  IF limit = current
           THEN /\ lim_last' = Last("ok", FALSE)
                /\ UNCHANGED <<current, lim_pos, rbuf>>
           ELSE IF UsizeGt(current + Remaining(rbuf), limit)
           THEN IF allowance < 0 \/ allowance > Remaining(rbuf)
                THEN \* the subtraction overflows, or initialize_unfilled_to
                     \* is asked for more than the buffer has left
                     /\ lim_last' = Last("panic", FALSE)
                     /\ UNCHANGED <<current, lim_pos, rbuf>>
                ELSE \E buf2_filled \in SourceReads(allowance) :
                       LET storage == rbuf.filled \o Delivered(buf2_filled)
                           filled == buf2_filled - filled_current
                       IN  /\ rbuf' = [rbuf EXCEPT !.filled = SubSeq(storage, 1, buf2_filled)]
                           /\ lim_pos' = lim_pos + buf2_filled
                           /\ IF filled < 0 /\ overflow_checks
                              THEN /\ lim_last' = Last("panic", TRUE)
                                   /\ UNCHANGED current
                              ELSE /\ lim_last' = Last("ok", TRUE)
                                   /\ current' = current + filled
           ELSE \E m \in SourceReads(Remaining(rbuf)) :
                  /\ rbuf' = [rbuf EXCEPT !.filled = @ \o Delivered(m)]
                  /\ lim_pos' = lim_pos + m
                  /\ current' = current + m
                  /\ lim_last' = Last("ok", TRUE)
    /\ UNCHANGED <<lim_soft, overflow_checks, limit, lim_src>>
    /\ UNCHANGED <<vnVars, frVars, rdVars, ccVars, nbtVars, cfbVars, pkVars, lpVars, pvVars>>

LimNext == LimNewBuf \/ ReadLimiter_poll_read \/ SoftReadLimiter_poll_read

InitLimiter == LimInit /\ VnIdle /\ FrIdle /\ RdIdle /\ CcIdle /\ NbtIdle /\ CfbIdle /\ PkIdle /\ LpIdle /\ PvIdle

SpecLimiter == InitLimiter /\ [][LimNext]_vars

\* C9: no byte is consumed through a ReadLimiter beyond its limit; a
\* read whose completion would exceed the limit is rejected with 'Read limit
\* exceeded' without polling the source, leaving the source position and
\* the consumed count unchanged; a read that ends at or below the limit
\* passes through to the source.  (Reads are into a buffer with room.)
C9_ReadLimiterCeiling ==
    ~lim_soft =>
        /\ lim_pos > 0 => (lim_pos <= limit /\ current <= limit)
        /\ (lim_last.kind # "none" /\ lim_last.remaining > 0) =>
              IF lim_last.current + lim_last.remaining > limit
              THEN /\ lim_last.kind = "Read limit exceeded" /\ ~lim_last.polled
                   /\ lim_pos = lim_last.pos /\ current = lim_last.current
              ELSE lim_last.kind = "ok" /\ lim_last.polled

\* C10: a SoftReadLimiter with a limit >= 0 never fails because of the
\* limit, the bytes it has taken from the source never exceed the limit (a
\* read that would cross it takes no more than the remaining allowance),
\* and a read issued once the limit is reached adds nothing to the buffer
\* and does not poll the source.
C10_SoftLimiterTruncates ==
    (lim_soft /\ limit >= 0) =>
        /\ lim_last.kind \in {"none", "ok"}
        /\ lim_pos <= limit
        /\ (lim_last.kind = "ok" /\ lim_last.pos = limit) =>
              /\ ~lim_last.polled
              /\ lim_pos = lim_last.pos
              /\ rbuf.filled = lim_last.filled


-----------------------------------------------------------------------------
(* Component codecs: size and encode of the built-in PacketComponents       *)
(* (transport/packet/primitive.rs, string.rs, nbt.rs) and the NBT writer    *)
(* and sizer they call (drax_core nbt.rs).  A String is its sequence of     *)
(* code points; an integer or float is its bit pattern.                     *)

\* `to_be_bytes()`: the bytes of a bit pattern, most significant first.
to_be_bytes(b) ==
    LET n == Len(b) \div 8
    IN  [j \in 1..n |-> BitsToNat([i \in 1..8 |-> b[(n - j) * 8 + i]], 8)]

\* str::as_bytes / String::len: the UTF-8 form of one code point.
Utf8Char(c) ==
    IF c < 128 THEN <<c>>
    ELSE IF c < 2048 THEN <<192 + (c \div 64), 128 + (c % 64)>>
    ELSE IF c < 65536
    THEN <<224 + (c \div 4096), 128 + ((c \div 64) % 64), 128 + (c % 64)>>
    ELSE <<240 + (c \div 262144), 128 + ((c \div 4096) % 64), 128 + ((c \div 64) % 64),
           128 + (c % 64)>>

as_bytes(string) == Concat([i \in 1..Len(string) |-> Utf8Char(string[i])])

\* cesu8::to_java_cesu8 for one code point: NUL becomes C0 80, a
\* supplementary code point becomes its two surrogates in three bytes each.
JavaCesu8Char(c) ==
    IF c = 0 THEN <<192, 128>>
    ELSE IF c < 65536 THEN Utf8Char(c)
    ELSE LET high == 55296 + ((c - 65536) \div 1024)
             low == 56320 + ((c - 65536) % 1024)
         IN  Utf8Char(high) \o Utf8Char(low)

to_java_cesu8(string) == Concat([i \in 1..Len(string) |-> JavaCesu8Char(string[i])])

\* write_u16::<BigEndian>(n as u16)
U16Be(n) == <<(n \div 256) % 256, n % 256>>

\* write_i32::<BigEndian>(len as i32)
I32Be(n) == to_be_bytes(I32ToBits(n))

\* nbt.rs size_string
size_string(string) == 4 + Len(to_java_cesu8(string))

\* nbt.rs write_string
write_string(string) == U16Be(Len(as_bytes(string))) \o to_java_cesu8(string)

RECURSIVE write_tag(_), size_tag(_), WriteMappings(_, _), SizeMappings(_, _, _)

\* write_compound_tag: the loop from entry i on.
WriteMappings(mappings, i) ==
    IF i > Len(mappings) THEN <<0>>
    ELSE LET id == mappings[i].value.bit
         IN  IF id = 0 THEN <<id>>
             ELSE <<id>> \o write_string(mappings[i].key) \o write_tag(mappings[i].value)
                         \o WriteMappings(mappings, i + 1)

write_compound_tag(tag) == WriteMappings(tag.mappings, 1)

\* size_compound_tag: the loop from entry i on.
SizeMappings(mappings, i, size) ==
    IF i > Len(mappings) THEN size + 1
    ELSE IF mappings[i].value.bit = 0 THEN size + 1
    ELSE SizeMappings(mappings, i + 1,
                      size + 1 + size_string(mappings[i].key) + size_tag(mappings[i].value))

size_compound_tag(tag) == SizeMappings(tag.mappings, 1, 0)

write_tag(tag) ==
    CASE tag.bit = 0 -> <<>>
      [] tag.bit = 1 -> <<tag.byte>>
      [] tag.bit \in 2..6 -> to_be_bytes(tag.bits)
      [] tag.bit = 7 -> I32Be(Len(tag.arr)) \o tag.arr
      [] tag.bit = 8 -> write_string(tag.str)
      [] tag.bit = 9 -> <<tag.tag_type>> \o I32Be(Len(tag.tags))
                           \o Concat([i \in 1..Len(tag.tags) |-> write_tag(tag.tags[i])])
      [] tag.bit = 10 -> write_compound_tag(tag)
      [] tag.bit \in {11, 12} ->
            I32Be(Len(tag.arr)) \o Concat([i \in 1..Len(tag.arr) |-> to_be_bytes(tag.arr[i])])

RECURSIVE SumSizes(_, _)
SumSizes(tags, i) == IF i > Len(tags) THEN 0 ELSE size_tag(tags[i]) + SumSizes(tags, i + 1)

size_tag(tag) ==
    CASE tag.bit = 0 -> 0
      [] tag.bit = 1 -> 1
      [] tag.bit = 2 -> 2
      [] tag.bit \in {3, 5} -> 4
      [] tag.bit \in {4, 6} -> 8
      [] tag.bit = 7 -> Len(tag.arr) + 4
      [] tag.bit = 8 -> size_string(tag.str)
      [] tag.bit = 9 -> 5 + SumSizes(tag.tags, 1)
      [] tag.bit = 10 -> size_compound_tag(tag)
      [] tag.bit = 11 -> (Len(tag.arr) * 4) + 4
      [] tag.bit = 12 -> (Len(tag.arr) * 8) + 4

COMPOUND_TAG_BIT == 10

\* write_optional_nbt; None is <<>>, Some(tag) is <<tag>>.
write_optional_nbt(tag) ==
    IF tag = <<>> THEN <<0>>
    ELSE <<COMPOUND_TAG_BIT>> \o write_string(<<>>) \o write_compound_tag(tag[1])

\* size_nbt
size_nbt(tag) == size_compound_tag(tag)


Size(kind, n) == [kind |-> kind, n |-> n]

PrimitiveTypes == {"u8", "u16", "u32", "u64", "i8", "i16", "i32", "i64", "f32", "f64"}

\* size_of::<Self>()
size_of(t) ==
    CASE t \in {"u8", "i8"} -> 1
      [] t \in {"u16", "i16"} -> 2
      [] t \in {"u32", "i32", "f32"} -> 4
      [] t \in {"u64", "i64", "f64"} -> 8

\* define_primitive_bind!: encode and size
primitive_encode(component_ref) == to_be_bytes(component_ref)
primitive_size(t) == Size("Constant", size_of(t))

\* impl PacketComponent for bool
bool_encode(component_ref) == IF component_ref THEN <<1>> ELSE <<0>>
bool_size == Size("Constant", 1)

\* impl PacketComponent for VarInt / VarLong
VarInt_encode(component_ref) == write_var_num(component_ref)
VarInt_size(input) == Size("Dynamic", size_var_num(input))
VarLong_encode(component_ref) == write_var_num(component_ref)
VarLong_size(input) == Size("Dynamic", size_var_num(input))

\* impl PacketComponent for String
String_encode(component_ref) ==
    write_var_num(I32ToBits(Len(as_bytes(component_ref)))) \o as_bytes(component_ref)
String_size(component_ref) ==
    Size("Dynamic", Len(as_bytes(component_ref))
                       + size_var_num(I32ToBits(Len(as_bytes(component_ref)))))

\* impl OwnedPacketComponent for Option<CompoundTag>
OptionNbt_encode_owned(self) == write_optional_nbt(self)
OptionNbt_size_owned(self) == Size("Dynamic", IF self = <<>> THEN 1 ELSE size_nbt(self[1]))

ComponentTypes == PrimitiveTypes \cup {"bool", "VarInt", "VarLong", "String", "OptionNbt"}

encode(t, v) ==
    CASE t \in PrimitiveTypes -> primitive_encode(v)
      [] t = "bool" -> bool_encode(v)
      [] t = "VarInt" -> VarInt_encode(v)
      [] t = "VarLong" -> VarLong_encode(v)
      [] t = "String" -> String_encode(v)
      [] t = "OptionNbt" -> OptionNbt_encode_owned(v)

size(t, v) ==
    CASE t \in PrimitiveTypes -> primitive_size(t)
      [] t = "bool" -> bool_size
      [] t = "VarInt" -> VarInt_size(v)
      [] t = "VarLong" -> VarLong_size(v)
      [] t = "String" -> String_size(v)
      [] t = "OptionNbt" -> OptionNbt_size_owned(v)

MaxStr == 2
MaxEntries == 2

\* NUL, 'a', and a two-, a three- and a four-byte code point
Chars == {0, 97, 233, 8364, 128512}

Strings == SeqsUpTo(Chars, MaxStr) \cup {[i \in 1..LongLen |-> 97]}

EndTag == [bit |-> 0]
ByteTag(b) == [bit |-> 1, byte |-> b]
NumTag(bit, bits) == [bit |-> bit, bits |-> bits]
ArrayTag(bit, arr) == [bit |-> bit, arr |-> arr]
StringTag(str) == [bit |-> 8, str |-> str]
ListTag(tag_type, tags) == [bit |-> 9, tag_type |-> tag_type, tags |-> tags]
CompoundTag(mappings) == [bit |-> 10, mappings |-> mappings]
Entry(key, value) == [key |-> key, value |-> value]

SampleTags ==
    {EndTag, ByteTag(7),
     NumTag(2, OnlyBit(16, 16)), NumTag(3, I32ToBits(-8877777)), NumTag(4, LowOnes(63, 64)),
     NumTag(5, OnlyBit(31, 32)), NumTag(6, EndBits(64, 64)),
     ArrayTag(7, <<1, 2>>), StringTag(<<>>), StringTag(<<97, 233>>),
     ListTag(0, <<>>), ListTag(1, <<ByteTag(1), ByteTag(2)>>),
     CompoundTag(<<>>), CompoundTag(<<Entry(<<97>>, ByteTag(1))>>),
     ArrayTag(11, <<I32ToBits(1), I32ToBits(-1)>>), ArrayTag(12, <<OnlyBit(1, 64)>>)}

SampleCompounds ==
    UNION {{CompoundTag([i \in 1..n |-> Entry(<<96 + i>>, f[i])]) : f \in [1..n -> SampleTags]}
           : n \in 0..MaxEntries}
    \cup {CompoundTag(<<Entry(k, ByteTag(1))>>) : k \in Strings}

ValuesOf(t) ==
    CASE t \in PrimitiveTypes -> VarNumSamples(8 * size_of(t))
      [] t = "bool" -> BOOLEAN
      [] t = "VarInt" -> VarIntSamples
      [] t = "VarLong" -> VarLongSamples
      [] t = "String" -> Strings
      [] t = "OptionNbt" -> {<<>>} \cup {<<c>> : c \in SampleCompounds}

CcInit ==
    /\ cc_pc = "start"
    /\ cc_type \in ComponentTypes
    /\ cc_value \in ValuesOf(cc_type)
    /\ cc_bytes = <<>>
    /\ cc_size = Size("none", 0)

\* The caller sizes the component and encodes it into an empty writer.
CcEncode ==
    /\ cc_pc = "start"
    /\ cc_pc' = "encoded"
    /\ cc_size' = size(cc_type, cc_value)
    /\ cc_bytes' = encode(cc_type, cc_value)
    /\ UNCHANGED <<cc_type, cc_value>>
    /\ UNCHANGED <<vnVars, frVars, rdVars, limVars, nbtVars, cfbVars, pkVars, lpVars, pvVars>>

CcNext == CcEncode

InitCodec == CcInit /\ VnIdle /\ FrIdle /\ RdIdle /\ LimIdle /\ NbtIdle /\ CfbIdle /\ PkIdle /\ LpIdle /\ PvIdle

SpecCodec == InitCodec /\ [][CcNext]_vars

\* C1: for every value of every built-in component codec, the byte count
\* size reports for the value is the number of bytes encode writes for it.
C1_SizeEqualsEncodedLength ==
    cc_pc = "encoded" => cc_size.n = Len(cc_bytes)


-----------------------------------------------------------------------------
(* NBT loading (drax_core nbt.rs load_tag / read_nbt), on a reader over the *)
(* bytes src from position pos.  A result carries the tag, the position    *)
(* reached and the accounter's tally.  Lengths on the wire are taken to be  *)
(* non-negative here.                                                       *)

\* `from_be_bytes` / read_i32::<BigEndian>: the bit pattern of big-endian bytes.
from_be_bytes(bytes) ==
    LET n == Len(bytes)
    IN  [i \in 1..(8 * n) |-> (bytes[n - ((i - 1) \div 8)] \div Pow2((i - 1) % 8)) % 2]

\* read_u16 / read_i32 of a length: the number the big-endian bytes stand for.
RECURSIVE BeNat(_)
\* the unsigned big-endian number of the bytes (read_u16, a non-negative read_i32)
BeNat(bytes) ==
    IF bytes = <<>> THEN 0
    ELSE (BeNat(SubSeq(bytes, 1, Len(bytes) - 1)) * 256) + bytes[Len(bytes)]

IsCont(b) == b >= 128 /\ b < 192

\* cesu8::from_java_cesu8: the code points of Java's modified UTF-8, or an
\* error on a malformed or truncated sequence.
RECURSIVE FromCesuLoop(_, _, _)
FromCesuLoop(bytes, i, acc) ==
    IF i > Len(bytes) THEN [ok |-> TRUE, str |-> acc]
    ELSE LET b == bytes[i]
             has(k) == i + k <= Len(bytes) /\ \A j \in 1..k : IsCont(bytes[i + j])
             low(j) == bytes[i + j] % 64
         IN  IF b < 128 THEN FromCesuLoop(bytes, i + 1, Append(acc, b))
             ELSE IF b >= 192 /\ b < 224 /\ has(1)
             THEN FromCesuLoop(bytes, i + 2, Append(acc, ((b % 32) * 64) + low(1)))
             ELSE IF b >= 224 /\ b < 240 /\ has(2)
             THEN LET c == ((b % 16) * 4096) + (low(1) * 64) + low(2)
                      pair == /\ c >= 55296 /\ c < 56320
                              /\ i + 5 <= Len(bytes) /\ bytes[i + 3] = 237
                              /\ bytes[i + 4] >= 176 /\ bytes[i + 4] < 192
                              /\ IsCont(bytes[i + 5])
                      lo == 53248 + ((bytes[i + 4] % 64) * 64) + (bytes[i + 5] % 64)
                  IN  IF pair
                      THEN FromCesuLoop(bytes, i + 6,
                               Append(acc, 65536 + ((c - 55296) * 1024) + (lo - 56320)))
                      ELSE IF c >= 55296 /\ c < 57344 THEN [ok |-> FALSE, str |-> acc]
                      ELSE FromCesuLoop(bytes, i + 3, Append(acc, c))
             ELSE [ok |-> FALSE, str |-> acc]

from_java_cesu8(bytes) == FromCesuLoop(bytes, 1, <<>>)

Loaded(tag, pos, acct) == [ok |-> TRUE, err |-> "", tag |-> tag, pos |-> pos, acct |-> acct]
Failed(err, pos, acct) == [ok |-> FALSE, err |-> err, tag |-> EndTag, pos |-> pos, acct |-> acct]

Has(src, pos, n) == pos + n <= Len(src)
Take(src, pos, n) == SubSeq(src, pos + 1, pos + n)

\* `depth > 512`
MaxNbtDepth == 512

DepthExceededLate(depth) == depth > MaxNbtDepth + 1
DepthExceeded(depth) == depth > MaxNbtDepth

TooBig == "Nbt tag too big"
TooDeep == "Nbt tag depth exceeded 512"
MissingType == "Missing type on list tag."
Eof == "failed to fill whole buffer"

\* NbtAccounter::account_bits (drax_core): no bypass for a limit of 0.
account_bits(acct, bits) ==
    IF acct.current + bits > acct.limit
    THEN [ok |-> FALSE, acct |-> acct]
    ELSE [ok |-> TRUE, acct |-> [acct EXCEPT !.current = @ + bits]]

\* drax_core read_string: the u16 length, that many bytes, from_java_cesu8.
read_string(src, pos) ==
    IF ~Has(src, pos, 2) THEN [ok |-> FALSE, err |-> Eof, str |-> <<>>, pos |-> pos]
    ELSE LET str_len == BeNat(Take(src, pos, 2))
         IN  IF str_len = 0 THEN [ok |-> TRUE, err |-> "", str |-> <<>>, pos |-> pos + 2]
             ELSE IF ~Has(src, pos + 2, str_len)
             THEN [ok |-> FALSE, err |-> "Invalid NBT string, under read.", str |-> <<>>,
                   pos |-> Len(src)]
             ELSE LET d == from_java_cesu8(Take(src, pos + 2, str_len))
                  IN  [ok |-> d.ok, err |-> IF d.ok THEN "" ELSE "Cesu8 encoding error",
                       str |-> d.str, pos |-> pos + 2 + str_len]


\* HashMap::insert: the entry replaces the one with the same key, if any.
MapInsert(mappings, key, value) ==
    IF \E i \in 1..Len(mappings) : mappings[i].key = key
    THEN [i \in 1..Len(mappings) |->
             IF mappings[i].key = key THEN Entry(key, value) ELSE mappings[i]]
    ELSE Append(mappings, Entry(key, value))

\* the fixed-width payloads of load_tag: bytes read and bits accounted
NumWidth(bit) == CASE bit = 2 -> 2 [] bit \in {3, 5} -> 4 [] bit \in {4, 6} -> 8
NumBits(bit) == CASE bit = 2 -> 80 [] bit \in {3, 5} -> 96 [] bit \in {4, 6} -> 128

ReadItems(src, pos, n, w) == [i \in 1..n |-> from_be_bytes(Take(src, pos + ((i - 1) * w), w))]

RECURSIVE load_tag(_, _, _, _, _), LoadElements(_, _, _, _, _, _, _), LoadEntries(_, _, _, _, _)

\* load_tag case 9: `for _ in 0..list_len { tags.push(load_tag(..)) }`
LoadElements(list_tag_type, src, pos, depth, acct, remaining, tags) ==
    IF remaining = 0 THEN Loaded(ListTag(list_tag_type, tags), pos, acct)
    ELSE LET r == load_tag(list_tag_type, src, pos, depth + 1, acct)
         IN  IF ~r.ok THEN r
             ELSE LoadElements(list_tag_type, src, r.pos, depth, r.acct, remaining - 1,
                               Append(tags, r.tag))

\* load_tag case 10: the `while next_byte != 0` loop
LoadEntries(src, pos, depth, acct, mappings) ==
    IF ~Has(src, pos, 1) THEN Failed(Eof, pos, acct)
    ELSE IF src[pos + 1] = 0 THEN Loaded(CompoundTag(mappings), pos + 1, acct)
    ELSE LET tag_name == read_string(src, pos + 1)
             a == account_bits(acct, 224 + (16 * Len(as_bytes(tag_name.str))))
             r == load_tag(src[pos + 1], src, tag_name.pos, depth + 1, a.acct)
             dup == \E i \in 1..Len(mappings) : mappings[i].key = tag_name.str
             a2 == IF dup THEN account_bits(r.acct, 288) ELSE [ok |-> TRUE, acct |-> r.acct]
         IN  IF ~tag_name.ok THEN Failed(tag_name.err, tag_name.pos, acct)
             ELSE IF ~a.ok THEN Failed(TooBig, tag_name.pos, acct)
             ELSE IF ~r.ok THEN r
             ELSE IF ~a2.ok THEN Failed(TooBig, r.pos, r.acct)
             ELSE LoadEntries(src, r.pos, depth, a2.acct,
                              MapInsert(mappings, tag_name.str, r.tag))

\* drax_core load_tag
load_tag(tag_bit, src, pos, depth, acct) ==
    CASE tag_bit = 0 ->
            LET a == account_bits(acct, 64)
            IN  IF a.ok THEN Loaded(EndTag, pos, a.acct) ELSE Failed(TooBig, pos, acct)
      [] tag_bit = 1 ->
            LET a == account_bits(acct, 72)
            IN  IF ~a.ok THEN Failed(TooBig, pos, acct)
                ELSE IF ~Has(src, pos, 1) THEN Failed(Eof, pos, a.acct)
                ELSE Loaded(ByteTag(src[pos + 1]), pos + 1, a.acct)
      [] tag_bit \in 2..6 ->
            LET a == account_bits(acct, NumBits(tag_bit))
                w == NumWidth(tag_bit)
            IN  IF ~a.ok THEN Failed(TooBig, pos, acct)
                ELSE IF ~Has(src, pos, w) THEN Failed(Eof, pos, a.acct)
                ELSE Loaded(NumTag(tag_bit, from_be_bytes(Take(src, pos, w))), pos + w, a.acct)
      [] tag_bit = 7 ->
            LET a == account_bits(acct, 192)
                sz == BeNat(Take(src, pos, 4))
                a2 == account_bits(a.acct, 8 * sz)
            IN  IF ~a.ok THEN Failed(TooBig, pos, acct)
                ELSE IF ~Has(src, pos, 4) THEN Failed(Eof, pos, a.acct)
                ELSE IF ~a2.ok THEN Failed(TooBig, pos + 4, a.acct)
                ELSE IF ~Has(src, pos + 4, sz) THEN Failed(Eof, pos + 4, a2.acct)
                ELSE Loaded(ArrayTag(7, Take(src, pos + 4, sz)), pos + 4 + sz, a2.acct)
      [] tag_bit = 8 ->
            LET a == account_bits(acct, 288)
                string == read_string(src, pos)
                a2 == account_bits(a.acct, 16 * Len(as_bytes(string.str)))
            IN  IF ~a.ok THEN Failed(TooBig, pos, acct)
                ELSE IF ~string.ok THEN Failed(string.err, string.pos, a.acct)
                ELSE IF ~a2.ok THEN Failed(TooBig, string.pos, a.acct)
                ELSE Loaded(StringTag(string.str), string.pos, a2.acct)
      [] tag_bit = 9 ->
            LET a == account_bits(acct, 296)
                list_tag_type == src[pos + 1]
                list_len == BeNat(Take(src, pos + 1, 4))
                a2 == account_bits(a.acct, 32 * list_len)
            IN  IF ~a.ok THEN Failed(TooBig, pos, acct)
                ELSE IF DepthExceeded(depth) THEN Failed(TooDeep, pos, a.acct)
                ELSE IF ~Has(src, pos, 5) THEN Failed(Eof, pos, a.acct)
                ELSE IF list_tag_type = 0 /\ list_len > 0 THEN Failed(MissingType, pos + 5, a.acct)
                ELSE IF ~a2.ok THEN Failed(TooBig, pos + 5, a.acct)
                ELSE LoadElements(list_tag_type, src, pos + 5, depth, a2.acct, list_len, <<>>)
      [] tag_bit = 10 ->
            LET a == account_bits(acct, 384)
            IN  IF ~a.ok THEN Failed(TooBig, pos, acct)
                ELSE IF DepthExceeded(depth) THEN Failed(TooDeep, pos, a.acct)
                ELSE LoadEntries(src, pos, depth, a.acct, <<>>)
      [] tag_bit \in {11, 12} ->
            LET a == account_bits(acct, 192)
                w == IF tag_bit = 11 THEN 4 ELSE 8
                len == BeNat(Take(src, pos, 4))
                a2 == account_bits(a.acct, (8 * w) * len)
            IN  IF ~a.ok THEN Failed(TooBig, pos, acct)
                ELSE IF ~Has(src, pos, 4) THEN Failed(Eof, pos, a.acct)
                ELSE IF ~a2.ok THEN Failed(TooBig, pos + 4, a.acct)
                ELSE IF ~Has(src, pos + 4, len * w) THEN Failed(Eof, pos + 4, a2.acct)
                ELSE \* vec![0; len] and then len pushes: the zeros stay in front
                     Loaded(ArrayTag(tag_bit, [i \in 1..len |-> Zeros(8 * w)]
                                                 \o ReadItems(src, pos + 4, len, w)),
                            pos + 4 + (len * w), a2.acct)
      [] OTHER -> Failed("Unknown tag bit", pos, acct)

-----------------------------------------------------------------------------
(* NBT of the crate itself (src/nbt.rs): define_tags!, the async codec *)

TooComplex == "NBT tag too complex. Depth surpassed 512."

\* NbtAccounter::account_bytes: a limit of 0 accounts nothing.
account_bytes(acct, bytes) ==
    IF acct.limit = 0 THEN [ok |-> TRUE, acct |-> acct]
    ELSE IF acct.current + bytes > acct.limit THEN [ok |-> FALSE, acct |-> acct]
    ELSE [ok |-> TRUE, acct |-> [acct EXCEPT !.current = @ + bytes]]

nbt_read_string(src, pos, acct) ==
    LET len == BeNat(Take(src, pos, 2))
        string == from_java_cesu8(Take(src, pos + 2, len))
        a == account_bytes(acct, Len(as_bytes(string.str)))
        bad(err, at) == [ok |-> FALSE, err |-> err, str |-> <<>>, pos |-> at, acct |-> acct]
    IN  IF ~Has(src, pos, 2) THEN bad(Eof, pos)
        ELSE IF ~Has(src, pos + 2, len) THEN bad(Eof, pos + 2)
        ELSE IF ~string.ok THEN bad("cesu8", pos + 2 + len)
        ELSE IF ~a.ok THEN bad(TooBig, pos + 2 + len)
        ELSE [ok |-> TRUE, err |-> "", str |-> string.str, pos |-> pos + 2 + len,
              acct |-> a.acct]

nbt_write_string(reference) ==
    LET cesu_8 == to_java_cesu8(reference) IN U16Be(Len(cesu_8)) \o cesu_8

nbt_size_string(reference) == 2 + Len(to_java_cesu8(reference))

RECURSIVE nbt_write_tag(_), nbt_size_tag(_), NbtSumSizes(_, _)

nbt_write_tag(tag) ==
    CASE tag.bit = 0 -> <<>>
      [] tag.bit = 1 -> <<tag.byte>>
      [] tag.bit \in 2..6 -> to_be_bytes(tag.bits)
      [] tag.bit = 7 -> I32Be(Len(tag.arr)) \o tag.arr
      [] tag.bit = 8 -> nbt_write_string(tag.str)
      [] tag.bit = 9 -> <<tag.tag_type>> \o I32Be(Len(tag.tags))
                           \o Concat([i \in 1..Len(tag.tags) |-> nbt_write_tag(tag.tags[i])])
      [] tag.bit = 10 ->
            Concat([i \in 1..Len(tag.mappings) |->
                       <<tag.mappings[i].value.bit>> \o nbt_write_string(tag.mappings[i].key)
                           \o nbt_write_tag(tag.mappings[i].value)]) \o <<0>>
      [] tag.bit \in {11, 12} ->
            I32Be(Len(tag.arr)) \o Concat([i \in 1..Len(tag.arr) |-> to_be_bytes(tag.arr[i])])

\* the `for` loops of TagList's and CompoundTag's size, from item i on
NbtSumSizes(items, i) ==
    IF i > Len(items) THEN 0
    ELSE (IF "key" \in DOMAIN items[i]
          THEN nbt_size_string(items[i].key) + 1 + nbt_size_tag(items[i].value)
          ELSE nbt_size_tag(items[i]))
         + NbtSumSizes(items, i + 1)

nbt_size_tag(tag) ==
    CASE tag.bit = 0 -> 0
      [] tag.bit = 1 -> 1
      [] tag.bit = 2 -> 2
      [] tag.bit \in {3, 5} -> 4
      [] tag.bit \in {4, 6} -> 8
      [] tag.bit = 7 -> 4 + Len(tag.arr)
      [] tag.bit = 8 -> nbt_size_string(tag.str)
      [] tag.bit = 9 -> 5 + NbtSumSizes(tag.tags, 1)
      [] tag.bit = 10 -> IF tag.mappings = <<>> THEN 1 ELSE NbtSumSizes(tag.mappings, 1) + 1
      [] tag.bit = 11 -> 4 + (4 * Len(tag.arr))
      [] tag.bit = 12 -> 4 + (8 * Len(tag.arr))

\* the bytes each fixed-width read accounts
NbtNumBytes(bit) == CASE bit = 2 -> 10 [] bit \in {3, 5} -> 12 [] bit \in {4, 6} -> 16

RECURSIVE nbt_load_tag(_, _, _, _, _), NbtLoadList(_, _, _, _, _, _, _),
          NbtLoadCompound(_, _, _, _, _)

\* TagList read: `for _ in 0..length { v.push(load_tag(..)) }`
NbtLoadList(tag_byte, src, pos, depth, acct, remaining, v) ==
    IF remaining = 0 THEN Loaded(ListTag(tag_byte, v), pos, acct)
    ELSE LET r == nbt_load_tag(src, pos, tag_byte, depth + 1, acct)
         IN  IF ~r.ok THEN r
             ELSE NbtLoadList(tag_byte, src, r.pos, depth, r.acct, remaining - 1,
                              Append(v, r.tag))

\* CompoundTag read: the `loop`
NbtLoadCompound(src, pos, depth, acct, map) ==
    IF ~Has(src, pos, 1) THEN Failed(Eof, pos, acct)
    ELSE IF src[pos + 1] = 0 THEN Loaded(CompoundTag(map), pos + 1, acct)
    ELSE LET a == account_bytes(acct, 28)
             key == nbt_read_string(src, pos + 1, a.acct)
             data == nbt_load_tag(src, key.pos, src[pos + 1], depth + 1, key.acct)
             a2 == account_bytes(data.acct, 36)
         IN  IF ~a.ok THEN Failed(TooBig, pos + 1, acct)
             ELSE IF ~key.ok THEN Failed(key.err, key.pos, key.acct)
             ELSE IF ~data.ok THEN data
             ELSE IF ~a2.ok THEN Failed(TooBig, data.pos, data.acct)
             ELSE NbtLoadCompound(src, data.pos, depth, a2.acct,
                                  Append(map, Entry(key.str, data.tag)))

\* load_tag of define_tags!
nbt_load_tag(src, pos, bit, depth, acct) ==
    CASE bit = 0 ->
            LET a == account_bytes(acct, 8)
            IN  IF a.ok THEN Loaded(EndTag, pos, a.acct) ELSE Failed(TooBig, pos, acct)
      [] bit = 1 ->
            LET a == account_bytes(acct, 9)
            IN  IF ~a.ok THEN Failed(TooBig, pos, acct)
                ELSE IF ~Has(src, pos, 1) THEN Failed(Eof, pos, a.acct)
                ELSE Loaded(ByteTag(src[pos + 1]), pos + 1, a.acct)
      [] bit \in 2..6 ->
            LET a == account_bytes(acct, NbtNumBytes(bit))
                w == NumWidth(bit)
            IN  IF ~a.ok THEN Failed(TooBig, pos, acct)
                ELSE IF ~Has(src, pos, w) THEN Failed(Eof, pos, a.acct)
                ELSE Loaded(NumTag(bit, from_be_bytes(Take(src, pos, w))), pos + w, a.acct)
      [] bit = 7 ->
            LET a == account_bytes(acct, 24)
                len == BeNat(Take(src, pos, 4))
                a2 == account_bytes(a.acct, len)
            IN  IF ~a.ok THEN Failed(TooBig, pos, acct)
                ELSE IF ~Has(src, pos, 4) THEN Failed(Eof, pos, a.acct)
                ELSE IF ~a2.ok THEN Failed(TooBig, pos + 4, a.acct)
                ELSE IF ~Has(src, pos + 4, len) THEN Failed(Eof, pos + 4, a2.acct)
                ELSE Loaded(ArrayTag(7, Take(src, pos + 4, len)), pos + 4 + len, a2.acct)
      [] bit = 8 ->
            LET a == account_bytes(acct, 36)
                string == nbt_read_string(src, pos, a.acct)
            IN  IF ~a.ok THEN Failed(TooBig, pos, acct)
                ELSE IF ~string.ok THEN Failed(string.err, string.pos, string.acct)
                ELSE Loaded(StringTag(string.str), string.pos, string.acct)
      [] bit = 9 ->
            LET a == account_bytes(acct, 37)
                tag_byte == src[pos + 1]
                length == BeNat(Take(src, pos + 1, 4))
                a2 == account_bytes(a.acct, 4 * length)
            IN  IF ~a.ok THEN Failed(TooBig, pos, acct)
                ELSE IF DepthExceeded(depth) THEN Failed(TooComplex, pos, a.acct)
                ELSE IF ~Has(src, pos, 5) THEN Failed(Eof, pos, a.acct)
                ELSE IF ~a2.ok THEN Failed(TooBig, pos + 5, a.acct)
                ELSE NbtLoadList(tag_byte, src, pos + 5, depth, a2.acct, length, <<>>)
      [] bit = 10 ->
            LET a == account_bytes(acct, 48)
            IN  IF ~a.ok THEN Failed(TooBig, pos, acct)
                ELSE IF DepthExceeded(depth) THEN Failed(TooComplex, pos, a.acct)
                ELSE NbtLoadCompound(src, pos, depth, a.acct, <<>>)
      [] bit \in {11, 12} ->
            LET a == account_bytes(acct, 24)
                w == IF bit = 11 THEN 4 ELSE 8
                len == BeNat(Take(src, pos, 4))
                a2 == account_bytes(a.acct, w * len)
            IN  IF ~a.ok THEN Failed(TooBig, pos, acct)
                ELSE IF ~Has(src, pos, 4) THEN Failed(Eof, pos, a.acct)
                ELSE IF ~a2.ok THEN Failed(TooBig, pos + 4, a.acct)
                ELSE IF ~Has(src, pos + 4, len * w) THEN Failed(Eof, pos + 4, a2.acct)
                ELSE Loaded(ArrayTag(bit, ReadItems(src, pos + 4, len, w)),
                            pos + 4 + (len * w), a2.acct)
      [] OTHER -> Failed("Invalid bit found while loading tag.", pos, acct)

-----------------------------------------------------------------------------
(* NBT runs: a tag is written and loaded back, or a source is read as is *)

\* a read_nbt that skips the root's name before it looks at the first byte
read_nbt_name_first(src, lim) ==
    [ok |-> Has(src, 0, 1), err |-> "", value |-> <<>>,
     pos |-> IF Has(src, 1, 2) THEN 3 + BeNat(Take(src, 1, 2)) ELSE Len(src),
     acct |-> [limit |-> lim, current |-> 0]]

\* read_nbt (drax_core): None is <<>>, Some(tag) is <<tag>>.
read_nbt(src, lim) ==
    LET accounter == [limit |-> lim, current |-> 0]
        none(ok, err, pos) == [ok |-> ok, err |-> err, value |-> <<>>, pos |-> pos,
                               acct |-> accounter]
        skipped == BeNat(Take(src, 1, 2))
        after == IF Has(src, 3, skipped) THEN 3 + skipped ELSE Len(src)
        r == load_tag(src[1], src, after, 0, accounter)
    IN  IF ~Has(src, 0, 1) THEN none(FALSE, Eof, 0)
        ELSE IF src[1] = 0 THEN none(TRUE, "", 1)
        ELSE IF src[1] # COMPOUND_TAG_BIT THEN none(FALSE, "Root tag must be a compound tag.", 1)
        ELSE IF ~Has(src, 1, 2) THEN none(FALSE, Eof, 1)
        ELSE [ok |-> r.ok, err |-> r.err, value |-> IF r.ok THEN <<r.tag>> ELSE <<>>,
              pos |-> r.pos, acct |-> r.acct]

\* EnsuredCompoundTag<LIMIT>::decode
EnsuredCompoundTag_decode(src, LIMIT) ==
    LET accounter == [limit |-> LIMIT, current |-> 0]
        none(ok, err, pos) == [ok |-> ok, err |-> err, value |-> <<>>, pos |-> pos,
                               acct |-> accounter]
        name == nbt_read_string(src, 1, accounter)
        tag == nbt_load_tag(src, name.pos, src[1], 0, name.acct)
    IN  IF ~Has(src, 0, 1) THEN none(FALSE, Eof, 0)
        ELSE IF src[1] = 0 THEN none(TRUE, "", 1)
        ELSE IF src[1] # 10 THEN none(FALSE, "Invalid tag bit. Expected compound tag", 1)
        ELSE IF ~name.ok THEN none(FALSE, name.err, name.pos)
        ELSE [ok |-> tag.ok, err |-> tag.err, value |-> IF tag.ok THEN <<tag.tag>> ELSE <<>>,
              pos |-> tag.pos, acct |-> tag.acct]

\* EnsuredCompoundTag::encode
EnsuredCompoundTag_encode(component_ref) ==
    IF component_ref = <<>> THEN <<0>>
    ELSE <<10>> \o nbt_write_string(<<>>) \o nbt_write_tag(component_ref[1])

NbtImpls == {"core", "crate"}

Write(impl, tag) == IF impl = "core" THEN write_tag(tag) ELSE nbt_write_tag(tag)
SizeOf(impl, tag) == IF impl = "core" THEN size_tag(tag) ELSE nbt_size_tag(tag)
Load(impl, src, bit, depth, lim) ==
    IF impl = "core" THEN load_tag(bit, src, 0, depth, [limit |-> lim, current |-> 0])
    ELSE nbt_load_tag(src, 0, bit, depth, [limit |-> lim, current |-> 0])
WriteOptional(impl, opt) ==
    IF impl = "core" THEN write_optional_nbt(opt) ELSE EnsuredCompoundTag_encode(opt)
ReadOptional(impl, src, lim) ==
    IF impl = "core" THEN read_nbt(src, lim) ELSE EnsuredCompoundTag_decode(src, lim)

MaxNest == 3

RECURSIVE Nest(_, _)
\* k containers inside one another, lists or compounds, the innermost empty
Nest(k, bit) ==
    IF k <= 1 THEN (IF bit = 9 THEN ListTag(0, <<>>) ELSE CompoundTag(<<>>))
    ELSE IF bit = 9 THEN ListTag(9, <<Nest(k - 1, bit)>>)
    ELSE CompoundTag(<<Entry(<<97>>, Nest(k - 1, bit))>>)

\* how deep the containers of a tag go (0: no container)
RECURSIVE Nesting(_)
Nesting(tag) ==
    LET Max(S) == IF S = {} THEN 0 ELSE CHOOSE m \in S : \A x \in S : x <= m
    IN  CASE tag.bit = 9 -> 1 + Max({Nesting(tag.tags[i]) : i \in 1..Len(tag.tags)})
          [] tag.bit = 10 ->
                1 + Max({Nesting(tag.mappings[i].value) : i \in 1..Len(tag.mappings)})
          [] OTHER -> 0

NbtTags ==
    SampleTags
    \cup {StringTag(<<0>>), StringTag(<<128512>>), ArrayTag(7, <<>>), ArrayTag(11, <<>>),
          ArrayTag(11, <<I32ToBits(1)>>),
          ListTag(8, <<StringTag(<<97>>), StringTag(<<>>)>>),
          ListTag(9, <<ListTag(1, <<ByteTag(1)>>), ListTag(0, <<>>)>>),
          ListTag(10, <<CompoundTag(<<>>), CompoundTag(<<Entry(<<97>>, ByteTag(1))>>)>>),
          CompoundTag(<<Entry(<<97>>, ByteTag(1)), Entry(<<98>>, StringTag(<<99>>)),
                        Entry(<<>>, ListTag(3, <<NumTag(3, I32ToBits(5))>>))>>),
          CompoundTag(<<Entry(<<97>>, CompoundTag(<<Entry(<<97>>, ByteTag(1))>>)),
                        Entry(<<98>>, CompoundTag(<<>>))>>)}
    \cup {Nest(k, bit) : k \in 2..MaxNest, bit \in {9, 10}}

\* a ceiling no sample tag reaches
AmpleLimit == Pow2(20)

NbtLimits == {0, 1, 50, 400, AmpleLimit}

\* load_tag is public and takes the depth it starts at; the deep starts stand for
\* the containers already around the tag.
NbtDepths == {0} \cup ((MaxNbtDepth - MaxNest + 1)..(MaxNbtDepth + 1))

\* sources that no write produced: a list header with element type 0, a leading
\* zero byte, a root that is no compound
CraftedSources ==
    {<<0, 0, 0, 0, n>> : n \in 0..2}
    \cup {<<0>> \o rest : rest \in SeqsUpTo({0, 10, 255}, 2)}
    \cup {<<1, 0, 0, 0>>, <<10, 0, 0, 0>>, <<10, 0, 1, 97, 1, 0, 1, 98, 5, 0>>}

NbtInit ==
    /\ nbt_pc = "start"
    /\ nbt_impl \in NbtImpls
    /\ nbt_tag \in NbtTags
    /\ nbt_bit = nbt_tag.bit
    /\ nbt_limit \in NbtLimits
    /\ nbt_depth \in NbtDepths
    /\ nbt_wire = <<>>
    /\ nbt_size = 0
    /\ nbt_out = [ok |-> FALSE]

\* size_tag and write_tag of the tag into an empty writer
NbtWrite ==
    /\ nbt_pc = "start"
    /\ nbt_pc' = "written"
    /\ nbt_wire' = Write(nbt_impl, nbt_tag)
    /\ nbt_size' = SizeOf(nbt_impl, nbt_tag)
    /\ UNCHANGED <<nbt_impl, nbt_tag, nbt_bit, nbt_limit, nbt_depth, nbt_out>>
    /\ UNCHANGED <<vnVars, frVars, rdVars, limVars, ccVars, cfbVars, pkVars, lpVars, pvVars>>

\* write_optional_nbt / EnsuredCompoundTag::encode of None or of a compound
NbtWriteOptional ==
    /\ nbt_pc = "start"
    /\ nbt_depth = 0
    /\ nbt_tag.bit \in {0, 10}
    /\ nbt_pc' = "optional"
    /\ nbt_wire' = WriteOptional(nbt_impl, IF nbt_tag.bit = 0 THEN <<>> ELSE <<nbt_tag>>)
    /\ UNCHANGED <<nbt_impl, nbt_tag, nbt_bit, nbt_limit, nbt_depth, nbt_size, nbt_out>>
    /\ UNCHANGED <<vnVars, frVars, rdVars, limVars, ccVars, cfbVars, pkVars, lpVars, pvVars>>

\* the peer sends bytes of its own
NbtCraft ==
    /\ nbt_pc = "start"
    /\ nbt_tag = EndTag
    /\ nbt_depth = 0
    /\ nbt_pc' = "crafted"
    /\ nbt_wire' \in CraftedSources
    /\ nbt_bit' = 9
    /\ UNCHANGED <<nbt_impl, nbt_tag, nbt_limit, nbt_depth, nbt_size, nbt_out>>
    /\ UNCHANGED <<vnVars, frVars, rdVars, limVars, ccVars, cfbVars, pkVars, lpVars, pvVars>>

\* load_tag(bit, read, depth, accounter) on the bytes
NbtLoad ==
    /\ nbt_pc \in {"written", "crafted"}
    /\ nbt_pc' = "loaded"
    /\ nbt_out' = Load(nbt_impl, nbt_wire, nbt_bit, nbt_depth, nbt_limit)
    /\ UNCHANGED <<nbt_impl, nbt_tag, nbt_bit, nbt_limit, nbt_depth, nbt_wire, nbt_size>>
    /\ UNCHANGED <<vnVars, frVars, rdVars, limVars, ccVars, cfbVars, pkVars, lpVars, pvVars>>

\* read_nbt(read, limit) / EnsuredCompoundTag::decode on the bytes
NbtRead ==
    /\ nbt_pc \in {"optional", "crafted"}
    /\ nbt_pc' = "read"
    /\ nbt_out' = ReadOptional(nbt_impl, nbt_wire, nbt_limit)
    /\ UNCHANGED <<nbt_impl, nbt_tag, nbt_bit, nbt_limit, nbt_depth, nbt_wire, nbt_size>>
    /\ UNCHANGED <<vnVars, frVars, rdVars, limVars, ccVars, cfbVars, pkVars, lpVars, pvVars>>

NbtNext == NbtWrite \/ NbtWriteOptional \/ NbtCraft \/ NbtLoad \/ NbtRead

InitNbt == NbtInit /\ VnIdle /\ FrIdle /\ RdIdle /\ LimIdle /\ CcIdle /\ CfbIdle /\ PkIdle /\ LpIdle /\ PvIdle

SpecNbt == InitNbt /\ [][NbtNext]_vars

\* the run wrote nbt_tag and loaded the bytes back with the tag's own type id
WroteAndLoaded == nbt_pc = "loaded" /\ nbt_bit = nbt_tag.bit

\* C11: a tag written with write_tag and loaded back with load_tag under its
\* own type id, from depth 0 and under a ceiling it does not reach, comes back
\* as a tag equal to the one written.
C11_TagRoundTrip ==
    (WroteAndLoaded /\ nbt_depth = 0 /\ nbt_limit = AmpleLimit)
        => (nbt_out.ok /\ nbt_out.tag = nbt_tag)

\* C12: the size size_tag computes for a tag is the number of bytes write_tag
\* writes for it.
C12_SizeTagEqualsWritten ==
    nbt_pc = "written" => nbt_size = Len(nbt_wire)

\* the run decoded a compound it had written: load_tag from depth 0, or read_nbt
DecodedCompound ==
    /\ nbt_tag.bit = 10
    /\ nbt_depth = 0
    /\ \/ WroteAndLoaded
       \/ nbt_pc = "read" /\ nbt_wire = WriteOptional(nbt_impl, <<nbt_tag>>)

\* the same decode of the same bytes under another ceiling
Redecode(lim) ==
    IF nbt_pc = "read" THEN ReadOptional(nbt_impl, nbt_wire, lim)
    ELSE Load(nbt_impl, nbt_wire, nbt_bit, nbt_depth, lim)

\* what the accounter adds up over the whole tree
AccumulatedCost == Redecode(AmpleLimit).acct.current

\* C13: a compound decoded under a nonzero ceiling below the tree's accumulated
\* cost fails with the oversized-tag error and the tally stays within the
\* ceiling; the same bytes decoded under a ceiling of zero decode.
C13_CeilingEnforcedZeroDisables ==
    DecodedCompound =>
        /\ (nbt_limit > 0 /\ nbt_limit < AccumulatedCost)
              => (~nbt_out.ok /\ nbt_out.err = TooBig /\ nbt_out.acct.current <= nbt_limit)
        /\ nbt_limit = 0 => nbt_out.ok

\* the depth of the deepest list or compound of the run's tag
Deepest == nbt_depth + Nesting(nbt_tag) - 1

DepthError == IF nbt_impl = "core" THEN TooDeep ELSE TooComplex

\* whether the accounter lets the whole of what the decode accounts through
CeilingAdmits ==
    LET accounter == [limit |-> nbt_limit, current |-> 0]
    IN  IF nbt_impl = "core" THEN account_bits(accounter, AccumulatedCost).ok
        ELSE account_bytes(accounter, AccumulatedCost).ok

\* where the body of the first container below MaxNbtDepth starts in the bytes of
\* Nest(k, bit): a list level is 5 bytes of header, a compound level 4 of entry
TooDeepBody == (MaxNbtDepth + 1 - nbt_depth) * (IF nbt_tag.bit = 9 THEN 5 ELSE 4)

IsNest == Nesting(nbt_tag) >= 1 /\ nbt_tag = Nest(Nesting(nbt_tag), nbt_tag.bit)

\* C14 as stated: a tree with a list or compound at depth 513 fails with the
\* depth-exceeded error whatever the ceiling, no byte of the too-deep body
\* read; a tree whose deepest one is at depth 512 loads.
C14_DepthErrorWhateverCeiling ==
    (WroteAndLoaded /\ IsNest) =>
        /\ Deepest > MaxNbtDepth
              => (~nbt_out.ok /\ nbt_out.err = DepthError /\ nbt_out.pos <= TooDeepBody)
        /\ (Deepest = MaxNbtDepth /\ CeilingAdmits) => nbt_out.ok

\* C14, amended: a tree with a list or compound at depth 513 fails, with the
\* depth-exceeded error if the ceiling admits what is accounted up to and
\* including that tag and with the oversized-tag error if not, and in both
\* cases no byte of the too-deep body is read; a tree whose deepest one is at
\* depth 512 loads if the ceiling admits its cost, and never fails for depth.
C14_DepthLimit ==
    (WroteAndLoaded /\ IsNest) =>
        /\ Deepest > MaxNbtDepth
              => /\ ~nbt_out.ok
                 /\ nbt_out.err = (IF CeilingAdmits THEN DepthError ELSE TooBig)
                 /\ nbt_out.pos <= TooDeepBody
        /\ Deepest <= MaxNbtDepth
              => /\ nbt_out.err # DepthError
                 /\ CeilingAdmits => nbt_out.ok

\* a list three levels down, at depth 513, was refused for its depth, the two
\* headers above it read and nothing of its own
C14_Witness ==
    /\ WroteAndLoaded
    /\ nbt_tag = Nest(3, 9)
    /\ nbt_depth = MaxNbtDepth - 1
    /\ CeilingAdmits
    /\ ~nbt_out.ok
    /\ nbt_out.err = DepthError
    /\ nbt_out.pos = 10

\* the run loaded, as a list, bytes the peer chose
LoadedCraftedList == nbt_pc = "loaded" /\ nbt_bit = 9 /\ nbt_tag = EndTag

\* C15: a list whose element type is 0 and whose declared length is not 0 does
\* not load: load_tag fails with the missing-list-element-type error (under a
\* ceiling that admits what is accounted).
C15_MissingListType ==
    (/\ LoadedCraftedList
     /\ Len(nbt_wire) >= 5
     /\ nbt_wire[1] = 0
     /\ BeNat(SubSeq(nbt_wire, 2, 5)) > 0
     /\ CeilingAdmits)
        => (~nbt_out.ok /\ nbt_out.err = MissingType)

\* C16: read_nbt on a source whose first byte is 0 returns None and has read
\* that byte and no other: what follows it is still in the source.
C16_AbsentConsumesOneByte ==
    (nbt_pc = "read" /\ nbt_wire # <<>> /\ nbt_wire[1] = 0)
        => (nbt_out.ok /\ nbt_out.value = <<>> /\ nbt_out.pos = 1)

\* read_nbt returned None on a zero byte followed by two more bytes
C16_Witness ==
    /\ nbt_pc = "read"
    /\ Len(nbt_wire) = 3
    /\ nbt_wire[1] = 0
    /\ nbt_out.ok
    /\ nbt_out.value = <<>>
    /\ nbt_out.pos = 1

-----------------------------------------------------------------------------
(* Encryption (transport/encryption.rs): cfb8::Encryptor<Aes128> and          *)
(* cfb8::Decryptor<Aes128> around a writer and a reader.  CFB8 works on       *)
(* blocks of one byte: the state is a shift register of the last ciphertext   *)
(* bytes, and each byte is xored with a byte the block cipher makes of the    *)
(* key and the register.                                                      *)

RECURSIVE Xor(_, _)
Xor(a, b) == IF a = 0 /\ b = 0 THEN 0 ELSE ((a + b) % 2) + (2 * Xor(a \div 2, b \div 2))

\* the register holds one cipher block
RegisterLen == 16

RECURSIVE Mix(_, _, _)
\* stands for the first byte of Aes128's encryption of the register under the
\* key: a byte that depends on the key and on every byte of the register
Mix(key, register, i) ==
    IF i > Len(register) THEN key
    ELSE (((Mix(key, register, i + 1) * 31) + register[i] + i) * 7) % 256

Keystream(key, register) == Mix(key, register, 1)
Shift(register, c) == Append(Tail(register), c)

\* Encryption::new(&key, &iv)
KeyIvInit(key, iv) == [key |-> key, register |-> [i \in 1..RegisterLen |-> iv]]

RECURSIVE encrypt(_, _), decrypt(_, _)

\* encrypt: every byte of data, the stream moving on by each; [stream, data]
encrypt(encryption, data) ==
    IF data = <<>> THEN [stream |-> encryption, data |-> <<>>]
    ELSE LET c == Xor(Head(data), Keystream(encryption.key, encryption.register))
             rest == encrypt([encryption EXCEPT !.register = Shift(@, c)], Tail(data))
         IN  [stream |-> rest.stream, data |-> <<c>> \o rest.data]

\* decrypt: the same, the register fed with the ciphertext
decrypt(decryption, data) ==
    IF data = <<>> THEN [stream |-> decryption, data |-> <<>>]
    ELSE LET p == Xor(Head(data), Keystream(decryption.key, decryption.register))
             rest == decrypt([decryption EXCEPT !.register = Shift(@, Head(data))],
                             Tail(data))
         IN  [stream |-> rest.stream, data |-> <<p>> \o rest.data]

MaxPlain == 3
MaxShort == 2
PlainBytes == {0, 5, 255}
CfbKey == 66
CfbIv == 36

CfbInit ==
    /\ ew_inner \in {"cursor", "socket"}
    /\ ew_plain \in SeqsUpTo(PlainBytes, MaxPlain)
    /\ ew_done = 0
    /\ ew_short = 0
    /\ ew_stream = KeyIvInit(CfbKey, CfbIv)
    /\ cfb_wire = <<>>
    /\ dr_pos = 0
    /\ dr_stream = KeyIvInit(CfbKey, CfbIv)
    /\ dr_out = <<>>

\* EncryptedWriter::poll_write(buf) with buf the next k unsent bytes: the whole
\* of buf is encrypted, then the wrapped writer takes n of the k bytes (n = 0:
\* it returned Pending).  write_all comes back with what was not taken.
EncryptedWriter_poll_write(k, n) ==
    LET buf == SubSeq(ew_plain, ew_done + 1, ew_done + k)
        block_copy == encrypt(ew_stream, buf)
    IN  /\ ew_stream' = block_copy.stream
        /\ cfb_wire' = cfb_wire \o SubSeq(block_copy.data, 1, n)
        /\ ew_done' = ew_done + n
        /\ ew_short' = IF n < k THEN ew_short + 1 ELSE ew_short
        /\ UNCHANGED <<ew_inner, ew_plain, dr_pos, dr_stream, dr_out>>
        /\ UNCHANGED <<vnVars, frVars, rdVars, limVars, ccVars, nbtVars, pkVars, lpVars, pvVars>>

\* the wrapped writer takes the whole write
CfbWrite ==
    \E k \in 1..(Len(ew_plain) - ew_done) : EncryptedWriter_poll_write(k, k)

\* a socket takes part of the write, or none of it yet
CfbWriteShort ==
    /\ ew_inner = "socket"
    /\ ew_short < MaxShort
    /\ \E k \in 1..(Len(ew_plain) - ew_done) : \E n \in 0..(k - 1) :
           EncryptedWriter_poll_write(k, n)

\* DecryptRead::poll_read into a ReadBuf: the wrapped reader fills n bytes of
\* it, and those are decrypted in place.
DecryptRead_poll_read ==
    \E n \in 1..(Len(cfb_wire) - dr_pos) :
        LET filled == decrypt(dr_stream, SubSeq(cfb_wire, dr_pos + 1, dr_pos + n))
        IN  /\ dr_stream' = filled.stream
            /\ dr_out' = dr_out \o filled.data
            /\ dr_pos' = dr_pos + n
            /\ UNCHANGED <<ew_inner, ew_plain, ew_done, ew_short, ew_stream, cfb_wire>>
            /\ UNCHANGED <<vnVars, frVars, rdVars, limVars, ccVars, nbtVars, pkVars, lpVars, pvVars>>

CfbNext == CfbWrite \/ CfbWriteShort \/ DecryptRead_poll_read

InitCipher == CfbInit /\ VnIdle /\ FrIdle /\ RdIdle /\ LimIdle /\ CcIdle /\ NbtIdle /\ PkIdle /\ LpIdle /\ PvIdle

SpecCipher == InitCipher /\ [][CfbNext]_vars

\* C17: whatever the sizes of the write and read calls, the bytes read through
\* DecryptRead are the bytes written through EncryptedWriter, in order: at
\* every moment the decrypted bytes are the first dr_pos bytes of the plaintext.
C17_CipherRoundTrip ==
    dr_out = SubSeq(ew_plain, 1, dr_pos)

-----------------------------------------------------------------------------
(* Generated components (struct_packet_components!, enum_packet_components!)  *)
(* and Vec<T>.  A type is a record: a field of a built-in codec, a struct of  *)
(* fields, a tagged union of a key and variants, or a Vec of elements.        *)

FieldType(name) == [kind |-> "field", name |-> name]
StructType(fields) == [kind |-> "struct", fields |-> fields]
EnumType(key, variants) == [kind |-> "enum", key |-> key, variants |-> variants]
VecType(elem) == [kind |-> "vec", elem |-> elem]

\* expand_field!(@size_bind): a Constant adds to both counters, a Dynamic to one
size_bind(counters, sz) ==
    IF sz.kind = "Constant"
    THEN [constant_counter |-> counters.constant_counter + sz.n,
          dynamic_counter |-> counters.dynamic_counter + sz.n]
    ELSE [counters EXCEPT !.dynamic_counter = @ + sz.n]

\* the end of both generated size functions
CounterSize(counters) ==
    IF counters.constant_counter = counters.dynamic_counter
    THEN Size("Constant", counters.constant_counter)
    ELSE Size("Dynamic", counters.dynamic_counter)

\* the key of variant number i (from 1): ${index(0)}, in the key's type
VariantKey(key, i) ==
    IF key.name = "u8" THEN SubSeq(I32ToBits(i - 1), 1, 8) ELSE I32ToBits(i - 1)

RECURSIVE component_encode(_, _), component_size(_, _), FieldsEncode(_, _, _),
          FieldsSize(_, _, _, _)

\* the ser_bind of each field in turn, from field i on
FieldsEncode(fields, values, i) ==
    IF i > Len(fields) THEN <<>>
    ELSE component_encode(fields[i], values[i]) \o FieldsEncode(fields, values, i + 1)

\* the size_bind of each field in turn, from field i on
FieldsSize(fields, values, i, counters) ==
    IF i > Len(fields) THEN counters
    ELSE FieldsSize(fields, values, i + 1,
                    size_bind(counters, component_size(fields[i], values[i])))

ZeroCounters == [constant_counter |-> 0, dynamic_counter |-> 0]

struct_encode(T, component_ref) == FieldsEncode(T.fields, component_ref, 1)
struct_size(T, component_ref) == CounterSize(FieldsSize(T.fields, component_ref, 1, ZeroCounters))

\* an instance of a tagged union is [variant, fields]
enum_encode(T, component_ref) ==
    component_encode(T.key, VariantKey(T.key, component_ref.variant))
        \o FieldsEncode(T.variants[component_ref.variant], component_ref.fields, 1)

\* only the arm of the instance's own variant is counted
enum_size(T, component_ref) ==
    CounterSize(FieldsSize(T.variants[component_ref.variant], component_ref.fields, 1,
                           size_bind(ZeroCounters,
                                     component_size(T.key,
                                                    VariantKey(T.key, component_ref.variant)))))

Vec_encode(T, self) ==
    write_var_num(I32ToBits(Len(self)))
        \o Concat([i \in 1..Len(self) |-> component_encode(T.elem, self[i])])

RECURSIVE VecSizeLoop(_, _, _, _, _)
\* Vec<T>::size: `for item in self`, from item i on
VecSizeLoop(T, self, i, var_int_size, dynamic_counter) ==
    IF i > Len(self) THEN Size("Dynamic", dynamic_counter)
    ELSE LET sz == component_size(T.elem, self[i])
         IN  IF sz.kind = "Constant" THEN Size("Dynamic", (sz.n * Len(self)) + var_int_size)
             ELSE VecSizeLoop(T, self, i + 1, var_int_size, dynamic_counter + sz.n)

Vec_size(T, self) ==
    LET var_int_size == size_var_num(I32ToBits(Len(self)))
    IN  VecSizeLoop(T, self, 1, var_int_size, var_int_size)

component_encode(T, v) ==
    CASE T.kind = "field" -> encode(T.name, v)
      [] T.kind = "struct" -> struct_encode(T, v)
      [] T.kind = "enum" -> enum_encode(T, v)
      [] T.kind = "vec" -> Vec_encode(T, v)

component_size(T, v) ==
    CASE T.kind = "field" -> size(T.name, v)
      [] T.kind = "struct" -> struct_size(T, v)
      [] T.kind = "enum" -> enum_size(T, v)
      [] T.kind = "vec" -> Vec_size(T, v)

\* what a decode returned: the value and the position it left the reader at;
\* key is the discriminant a failed tagged-union decode names
Decode(value, pos) == [ok |-> TRUE, err |-> "", key |-> <<>>, value |-> value, pos |-> pos]
DecodeErr(err, key, pos) == [ok |-> FALSE, err |-> err, key |-> key, value |-> <<>>, pos |-> pos]

FailedToDecodeKey == "Failed to decode key"

\* define_primitive_bind!: decode
primitive_decode(t, src, pos) ==
    IF Has(src, pos, size_of(t)) THEN Decode(from_be_bytes(Take(src, pos, size_of(t))), pos + size_of(t))
    ELSE DecodeErr(Eof, <<>>, Len(src))

\* impl PacketComponent for VarInt: decode
VarInt_decode(src, pos) ==
    LET r == read_var_num(SubSeq(src, pos + 1, Len(src)), I32Bits, VarIntBitLimit)
    IN  IF r.ok THEN Decode(r.value, pos + r.consumed) ELSE DecodeErr(r.err, <<>>, pos + r.consumed)

RECURSIVE component_decode(_, _, _), FieldsDecode(_, _, _, _)

\* the de_bind of each field in turn, from field i on; the first failure ends it
FieldsDecode(fields, src, pos, i) ==
    IF i > Len(fields) THEN Decode(<<>>, pos)
    ELSE LET field == component_decode(fields[i], src, pos)
         IN  IF ~field.ok THEN field
             ELSE LET rest == FieldsDecode(fields, src, field.pos, i + 1)
                  IN  IF ~rest.ok THEN rest ELSE Decode(<<field.value>> \o rest.value, rest.pos)

struct_decode(T, src, pos) == FieldsDecode(T.fields, src, pos, 1)

\* the arms of the match on the key: the variants whose case is the key read
MatchingArms(T, key) == {i \in 1..Len(T.variants) : VariantKey(T.key, i) = key}

enum_decode_first_arm(T, src, pos) ==
    LET key == component_decode(T.key, src, pos)
    IN  IF ~key.ok THEN key
        ELSE IF MatchingArms(T, key.value) = {} THEN DecodeErr(FailedToDecodeKey, key.value, key.pos)
        ELSE LET fields == FieldsDecode(T.variants[1], src, key.pos, 1)
             IN  IF ~fields.ok THEN fields
                 ELSE Decode([variant |-> 1, fields |-> fields.value], fields.pos)

enum_decode(T, src, pos) ==
    LET key == component_decode(T.key, src, pos)
    IN  IF ~key.ok THEN key
        ELSE IF MatchingArms(T, key.value) = {} THEN DecodeErr(FailedToDecodeKey, key.value, key.pos)
        ELSE LET arm == CHOOSE i \in MatchingArms(T, key.value) :
                            \A j \in MatchingArms(T, key.value) : i <= j
                 fields == FieldsDecode(T.variants[arm], src, key.pos, 1)
             IN  IF ~fields.ok THEN fields
                 ELSE Decode([variant |-> arm, fields |-> fields.value], fields.pos)

component_decode(T, src, pos) ==
    CASE T.kind = "field" /\ T.name = "VarInt" -> VarInt_decode(src, pos)
      [] T.kind = "field" /\ T.name # "VarInt" -> primitive_decode(T.name, src, pos)
      [] T.kind = "struct" -> struct_decode(T, src, pos)
      [] T.kind = "enum" -> enum_decode(T, src, pos)

MaxFields == 2
MaxVec == 2

FieldTypes == {FieldType(n) : n \in {"u8", "i32", "VarInt"}}
KeyTypes == {FieldType(n) : n \in {"u8", "VarInt"}}

StructTypes == {StructType(fs) : fs \in SeqsUpTo(FieldTypes, MaxFields) \ {<<>>}}
EnumTypes ==
    {EnumType(k, <<v1, v2>>) : k \in KeyTypes, v1 \in SeqsUpTo(FieldTypes, 1),
                               v2 \in SeqsUpTo(FieldTypes, 1)}
VecTypes ==
    {VecType(e) : e \in FieldTypes \cup {FieldType("String")}
                        \cup {EnumType(FieldType("u8"), <<<<FieldType("u8")>>, <<FieldType("i32")>>>>),
                              EnumType(FieldType("u8"), <<<<FieldType("u8")>>, <<FieldType("VarInt")>>>>)}}

RECURSIVE Instances(_), Tuples(_, _)
\* one value per field, from field i on
Tuples(fields, i) ==
    IF i > Len(fields) THEN {<<>>}
    ELSE {<<v>> \o rest : v \in Instances(fields[i]), rest \in Tuples(fields, i + 1)}

Instances(T) ==
    CASE T.kind = "field" ->
            (CASE T.name = "u8" -> {SubSeq(I32ToBits(7), 1, 8), SubSeq(I32ToBits(255), 1, 8)}
               [] T.name = "i32" -> {I32ToBits(1), I32ToBits(-1)}
               [] T.name = "VarInt" -> {I32ToBits(1), I32ToBits(300)}
               [] T.name = "String" -> {<<>>, <<97, 233>>})
      [] T.kind = "struct" -> Tuples(T.fields, 1)
      [] T.kind = "enum" ->
            UNION {{[variant |-> i, fields |-> f] : f \in Tuples(T.variants[i], 1)}
                   : i \in 1..Len(T.variants)}
      [] T.kind = "vec" -> SeqsUpTo(Instances(T.elem), MaxVec)

PkInit ==
    /\ pk_pc = "start"
    /\ pk_type \in StructTypes \cup EnumTypes \cup VecTypes
    /\ pk_a \in Instances(pk_type)
    /\ pk_b \in Instances(pk_type)
    /\ pk_size_a = Size("none", 0)
    /\ pk_size_b = Size("none", 0)
    /\ pk_bytes_a = <<>>
    /\ pk_bytes_b = <<>>
    /\ pk_src = <<>>
    /\ pk_dec = [ok |-> FALSE]

\* size and encode of both instances
PkMeasure ==
    /\ pk_pc = "start"
    /\ pk_pc' = "measured"
    /\ pk_size_a' = component_size(pk_type, pk_a)
    /\ pk_size_b' = component_size(pk_type, pk_b)
    /\ pk_bytes_a' = component_encode(pk_type, pk_a)
    /\ pk_bytes_b' = component_encode(pk_type, pk_b)
    /\ UNCHANGED <<pk_type, pk_a, pk_b, pk_src, pk_dec>>
    /\ UNCHANGED <<vnVars, frVars, rdVars, limVars, ccVars, nbtVars, cfbVars, lpVars, pvVars>>

\* decode of what encode wrote for pk_a, with or without more bytes behind it
PkDecode ==
    /\ pk_pc = "measured"
    /\ pk_type.kind \in {"struct", "enum"}
    /\ pk_pc' = "decoded"
    /\ \E trail \in {<<>>, <<1>>} :
          /\ pk_src' = pk_bytes_a \o trail
          /\ pk_dec' = component_decode(pk_type, pk_bytes_a \o trail, 0)
    /\ UNCHANGED <<pk_type, pk_a, pk_b, pk_size_a, pk_size_b, pk_bytes_a, pk_bytes_b>>
    /\ UNCHANGED <<vnVars, frVars, rdVars, limVars, ccVars, nbtVars, cfbVars, lpVars, pvVars>>

\* discriminants no variant of the two has
StrayKeys(key) ==
    IF key.name = "u8" THEN {SubSeq(I32ToBits(2), 1, 8), SubSeq(I32ToBits(255), 1, 8)}
    ELSE {I32ToBits(2), I32ToBits(-1)}

\* decode of a tagged union from bytes that start with a stray discriminant
PkDecodeCrafted ==
    /\ pk_pc = "start"
    /\ pk_type.kind = "enum"
    /\ pk_pc' = "crafted"
    /\ \E key \in StrayKeys(pk_type.key) :
          /\ pk_src' = component_encode(pk_type.key, key) \o <<0, 0, 0, 1>>
          /\ pk_dec' = component_decode(pk_type, component_encode(pk_type.key, key) \o <<0, 0, 0, 1>>, 0)
    /\ UNCHANGED <<pk_type, pk_a, pk_b, pk_size_a, pk_size_b, pk_bytes_a, pk_bytes_b>>
    /\ UNCHANGED <<vnVars, frVars, rdVars, limVars, ccVars, nbtVars, cfbVars, lpVars, pvVars>>

PkNext == PkMeasure \/ PkDecode \/ PkDecodeCrafted

InitComponents ==
    PkInit /\ VnIdle /\ FrIdle /\ RdIdle /\ LimIdle /\ CcIdle /\ NbtIdle /\ CfbIdle /\ LpIdle
        /\ PvIdle

SpecComponents == InitComponents /\ [][PkNext]_vars

\* whether the codec of a field has one size for all its values
StaticSize(T) == T.name \in PrimitiveTypes \cup {"bool"}

RECURSIVE StaticTotal(_, _)
StaticTotal(fields, i) ==
    IF i > Len(fields) THEN 0 ELSE size_of(fields[i].name) + StaticTotal(fields, i + 1)

\* every field (of every variant, and the key) has a statically known size, and
\* every variant the same total
AllStaticAndEqual(T) ==
    IF T.kind = "struct" THEN \A i \in 1..Len(T.fields) : StaticSize(T.fields[i])
    ELSE /\ StaticSize(T.key)
         /\ \A j \in 1..Len(T.variants) :
               /\ \A i \in 1..Len(T.variants[j]) : StaticSize(T.variants[j][i])
               /\ StaticTotal(T.variants[j], 1) = StaticTotal(T.variants[1], 1)

\* C18: when size reports Constant(n) for one instance of a generated struct
\* or tagged union, every instance of the type encodes to n bytes; and Constant
\* is reported exactly when every field, of every variant, has a statically
\* known size and the variants have the same size.
C18_ConstantMeansEveryInstance ==
    (pk_pc = "measured" /\ pk_type.kind \in {"struct", "enum"}) =>
        /\ pk_size_a.kind = "Constant" => Len(pk_bytes_b) = pk_size_a.n
        /\ pk_size_a.kind = "Constant" <=> AllStaticAndEqual(pk_type)

RECURSIVE SumOfSizes(_, _, _)
SumOfSizes(T, self, i) ==
    IF i > Len(self) THEN 0
    ELSE component_size(T.elem, self[i]).n + SumOfSizes(T, self, i + 1)

\* C19: the size of a Vec is the size of its VarInt count plus the sum of the
\* sizes its elements report, whether or not they report Constant.
C19_VecSizeIsPrefixPlusSum ==
    (pk_pc = "measured" /\ pk_type.kind = "vec") =>
        pk_size_a.n = size_var_num(I32ToBits(Len(pk_a))) + SumOfSizes(pk_type, pk_a, 1)

-----------------------------------------------------------------------------
(* Length-prefixed strings and byte vectors and their bounds.  Only lengths   *)
(* matter here: a source is its VarInt prefix and the number of body bytes    *)
(* behind it, a value is its length in bytes.                                 *)

\* const STRING_DEFAULT_CAP: i32 = 32767 * 4
STRING_DEFAULT_CAP == 131068

BoundExceeded == "exceeded length bound"

\* what a decode did: allocated is the size of the buffer it made, read the
\* body bytes it took from the source
Decoded(ok, err, allocated, read) ==
    [ok |-> ok, err |-> err, allocated |-> allocated, read |-> read, written |-> 0]
Encoded(ok, err, written) ==
    [ok |-> ok, err |-> err, allocated |-> 0, read |-> 0, written |-> written]

CapacityOverflow == "panic: capacity overflow"

\* vec![0; len as usize] and read_exact(&mut buf) on a source with body bytes
\* left; a negative len is, as usize, above isize::MAX and vec! panics
ReadExact(len, body) ==
    IF len < 0 THEN Decoded(FALSE, CapacityOverflow, 0, 0)
    ELSE IF body < len THEN Decoded(FALSE, Eof, len, body) ELSE Decoded(TRUE, "", len, len)

\* String::decode
String_decode(prefix, body) ==
    LET len == read_var_num(prefix, I32Bits, VarIntBitLimit)
    IN  IF ~len.ok THEN Decoded(FALSE, len.err, 0, 0)
        ELSE IF BitsToI32(len.value) > STRING_DEFAULT_CAP THEN Decoded(FALSE, BoundExceeded, 0, 0)
        ELSE ReadExact(BitsToI32(len.value), body)

\* String::encode of a string of len bytes: nothing is checked
String_encode_len(len) == Encoded(TRUE, "", Len(write_var_num(I32ToBits(len))) + len)

\* LimitedString<N>::decode
LimitedString_decode(N, prefix, body) ==
    LET string_size == read_var_num(prefix, I32Bits, VarIntBitLimit)
    IN  IF ~string_size.ok THEN Decoded(FALSE, string_size.err, 0, 0)
        ELSE IF BitsToI32(string_size.value) > N * 4 THEN Decoded(FALSE, BoundExceeded, 0, 0)
        ELSE ReadExact(BitsToI32(string_size.value), body)

\* LimitedString<N>::encode
LimitedString_encode(N, len) ==
    IF len > N * 4 THEN Encoded(FALSE, BoundExceeded, 0) ELSE String_encode_len(len)

\* Vec<u8>::decode_owned: the buffer is made as long as the prefix says
VecU8_decode_owned(prefix, body) ==
    LET len == read_var_num(prefix, I32Bits, VarIntBitLimit)
    IN  IF ~len.ok THEN Decoded(FALSE, len.err, 0, 0)
        ELSE ReadExact(BitsToI32(len.value), body)

\* Vec<u8>::encode_owned
VecU8_encode_owned(len) == Encoded(TRUE, "", Len(write_var_num(I32ToBits(len))) + len)

\* the bound the component is meant to keep
LengthBound(kind, N) == IF kind = "LimitedString" THEN N * 4 ELSE STRING_DEFAULT_CAP

MaxN == 2

LpKinds == {"String", "LimitedString", "VecU8"}
LpLengths ==
    -1..((MaxN * 4) + 1) \cup {STRING_DEFAULT_CAP - 1, STRING_DEFAULT_CAP, STRING_DEFAULT_CAP + 1}

LpInit ==
    /\ lp_pc = "start"
    /\ lp_kind \in LpKinds
    /\ lp_n \in (IF lp_kind = "LimitedString" THEN 1..MaxN ELSE {0})
    /\ lp_len \in LpLengths
    /\ lp_body \in {0} \cup ({lp_len, lp_len + 1} \cap Nat)
    /\ lp_out = [ok |-> FALSE]

\* decode on a source holding the prefix lp_len and lp_body bytes after it
LpDecode ==
    /\ lp_pc = "start"
    /\ lp_pc' = "decoded"
    /\ LET prefix == write_var_num(I32ToBits(lp_len))
       IN  lp_out' = CASE lp_kind = "String" -> String_decode(prefix, lp_body)
                       [] lp_kind = "LimitedString" -> LimitedString_decode(lp_n, prefix, lp_body)
                       [] lp_kind = "VecU8" -> VecU8_decode_owned(prefix, lp_body)
    /\ UNCHANGED <<lp_kind, lp_n, lp_len, lp_body>>
    /\ UNCHANGED <<vnVars, frVars, rdVars, limVars, ccVars, nbtVars, cfbVars, pkVars, pvVars>>

\* encode of a value lp_len bytes long into an empty writer
LpEncode ==
    /\ lp_pc = "start"
    /\ lp_body = 0
    /\ lp_len >= 0
    /\ lp_pc' = "encoded"
    /\ lp_out' = CASE lp_kind = "String" -> String_encode_len(lp_len)
                   [] lp_kind = "LimitedString" -> LimitedString_encode(lp_n, lp_len)
                   [] lp_kind = "VecU8" -> VecU8_encode_owned(lp_len)
    /\ UNCHANGED <<lp_kind, lp_n, lp_len, lp_body>>
    /\ UNCHANGED <<vnVars, frVars, rdVars, limVars, ccVars, nbtVars, cfbVars, pkVars, pvVars>>

LpNext == LpDecode \/ LpEncode

InitBounds ==
    LpInit /\ VnIdle /\ FrIdle /\ RdIdle /\ LimIdle /\ CcIdle /\ NbtIdle /\ CfbIdle /\ PkIdle
        /\ PvIdle

SpecBounds == InitBounds /\ [][LpNext]_vars

\* C20: a decode whose length prefix is above the bound fails with the
\* bound-exceeded error, no buffer made and no body byte read; an encode of a
\* value longer than the bound fails with the bound-exceeded error, nothing
\* written.
C20_BoundEnforced ==
    (lp_pc \in {"decoded", "encoded"} /\ lp_len > LengthBound(lp_kind, lp_n)) =>
        /\ ~lp_out.ok
        /\ lp_out.err = BoundExceeded
        /\ lp_out.allocated = 0
        /\ lp_out.read = 0
        /\ lp_out.written = 0

-----------------------------------------------------------------------------
(* Tagged unions: encode and decode *)

\* the key codec's bytes for the variant's discriminant, then the variant's
\* fields in declaration order
KeyThenFields(T, v) ==
    component_encode(T.key, VariantKey(T.key, v.variant))
        \o Concat([i \in 1..Len(v.fields) |-> component_encode(T.variants[v.variant][i], v.fields[i])])

-----------------------------------------------------------------------------
(* VarNum reads of bytes that are no VarNum *)

\* the kind of a read's error: err!(ErrorType::EOF) is the end-of-stream kind;
\* err_explain!(..) and Error::cause(..) carry a message in the generic kind
ErrorKind(err) ==
    CASE err = "" -> "none"
      [] err = "EOF" -> "EOF"
      [] OTHER -> "Generic"

TooBigErrors == {"VarInt too large", "Var int too big, could not find end."}

AllContinue(src, n) == Len(src) >= n /\ \A i \in 1..n : src[i] >= 128

\* C23: when the first 5 (10) bytes all carry the continuation bit,
\* read_var_int (read_var_long) fails with the too-big error and has consumed
\* those 5 (10) bytes and no more.
C23_OverLongFails ==
    (vn_pc = "crafted" /\ AllContinue(vn_sink, MaxVarNumBytes(BitLimitOf(vn_value)))) =>
        /\ ~vn_read.ok
        /\ vn_read.err \in TooBigErrors
        /\ vn_read.consumed = MaxVarNumBytes(BitLimitOf(vn_value))

\* ten continuation bytes and an eleventh byte behind them, read as a VarLong
C23_Witness ==
    /\ vn_pc = "crafted"
    /\ Len(vn_value) = I64Bits
    /\ vn_sink = [i \in 1..11 |-> IF i = 11 THEN 1 ELSE 255]
    /\ ~vn_read.ok
    /\ vn_read.consumed = 10

\* C24: a read of a source that ends before the terminating byte of the VarNum
\* (an empty source too) fails with the end-of-stream error kind, in the
\* futures and in the synchronous functions alike.
C24_TruncatedIsEof ==
    (vn_pc = "crafted" /\ Len(vn_sink) < MaxVarNumBytes(BitLimitOf(vn_value))
        /\ AllContinue(vn_sink, Len(vn_sink))) =>
        /\ ~vn_read.ok
        /\ ErrorKind(vn_read.err) = "EOF"

-----------------------------------------------------------------------------
(* The buffered transport reader: dropped futures and over-length prefixes *)

\* the frames handed to the pipeline so far, in order
ChunkResults == SelectSeq(rd_results, LAMBDA r : r.kind = "chunk")

\* C25: when a read_transport_packet future was dropped after it had parsed
\* and consumed a frame's length prefix, the reads that follow on the same
\* pipeline still yield the frames sent, with their boundaries: every frame
\* handed to the pipeline is the next frame of the stream.
C25_DropKeepsBoundaries ==
    rd_dropped =>
        /\ Len(ChunkResults) <= Len(rd_sent)
        /\ \A i \in 1..Len(ChunkResults) : ChunkResults[i] = Out("chunk", rd_sent[i])

\* C28: a poll that finds an over-length VarInt (5 bytes with the
\* continuation bit) buffered where a length prefix is due ends the read with
\* an error; the read does not stay pending.
C28_OverLongPrefixEnds ==
    (rd_polls >= 1 /\ ready_size = <<>>
        /\ AllContinue(buffer, MaxVarNumBytes(VarIntBitLimit))) =>
        /\ rd_future # "pending"
        /\ rd_results # <<>>
        /\ rd_results[Len(rd_results)].kind \notin {"chunk", "pending"}

-----------------------------------------------------------------------------
(* Hostile lengths *)

\* C26: a hostile length ends the operation with an error value or a valid
\* empty result and never with a panic: a frame length prefix of 0 in the
\* buffered transport reader, a negative length prefix in a string or
\* byte-vector decode, a negative declared decompressed length in
\* FrameDecoder.
C26_NoPanicOnHostileLength ==
    /\ rd_future # "panicked"
    /\ \A i \in 1..Len(rd_results) : rd_results[i].kind # "panic"
    /\ lp_pc = "decoded" => lp_out.err # CapacityOverflow
    /\ fr_out.kind # "panic"

-----------------------------------------------------------------------------
(* The VarNum futures of transport/buffer/var_num.rs polled against a reader *)
(* or writer that returns Pending between bytes.  A poll is given k, the     *)
(* number of bytes the reader / writer takes before it returns Pending.      *)

RECURSIVE ReadPollLoop(_, _, _, _, _, _)
\* ReadVarInt::poll: the loop over me.value and me.bit_offset
ReadPollLoop(value, bit_offset, src, pos, k, bit_limit) ==
    IF bit_offset >= bit_limit
    THEN [ready |-> TRUE, ok |-> FALSE, err |-> "VarInt too large", value |-> value,
          bit_offset |-> bit_offset, pos |-> pos]
    ELSE IF pos >= Len(src)
    THEN [ready |-> TRUE, ok |-> FALSE, err |-> "EOF", value |-> value,
          bit_offset |-> bit_offset, pos |-> pos]
    ELSE IF k = 0
    THEN [ready |-> FALSE, ok |-> FALSE, err |-> "", value |-> value,
          bit_offset |-> bit_offset, pos |-> pos]
    ELSE LET byte == src[pos + 1]
             next == OrBits(value, ShlSeven(byte, bit_offset, Len(value)))
         IN  IF byte < 128
             THEN [ready |-> TRUE, ok |-> TRUE, err |-> "", value |-> next,
                   bit_offset |-> bit_offset + 7, pos |-> pos + 1]
             ELSE ReadPollLoop(next, bit_offset + 7, src, pos + 1, k - 1, bit_limit)

RECURSIVE WritePollLoop(_, _, _)
\* WriteVarInt::poll: the loop; value is the local and, after every byte
\* written, also *me.value
WritePollLoop(value, k, written) ==
    IF k = 0 THEN [ready |-> FALSE, value |-> value, written |-> written]
    ELSE IF AndCheckIsZero(value)
    THEN [ready |-> TRUE, value |-> value, written |-> Append(written, LowByte(value))]
    ELSE WritePollLoop(Shr7(value), k - 1, Append(written, LowSevenCont(value)))

\* the shifted value kept in the local only: me.value as it was
WriteVarInt_poll_local(me_value, k) ==
    [WritePollLoop(me_value, k, <<>>) EXCEPT !.value = me_value]

\* WriteVarInt::poll / WriteVarLong::poll, once
WriteVarInt_poll(me_value, k) == WritePollLoop(me_value, k, <<>>)

PvInit ==
    /\ pv_pc \in {"reading", "writing"}
    /\ pv_orig \in VarIntSamples \cup VarLongSamples
    /\ pv_value = (IF pv_pc = "reading" THEN Zeros(Len(pv_orig)) ELSE pv_orig)
    /\ pv_bit_offset = 0
    /\ pv_src = (IF pv_pc = "reading" THEN write_var_num(pv_orig) ELSE <<>>)
    /\ pv_pos = 0
    /\ pv_sink = <<>>
    /\ pv_pendings = 0
    /\ pv_out = [ok |-> FALSE]

\* one poll of the ReadVarInt / ReadVarLong future
PvPollRead ==
    /\ pv_pc = "reading"
    /\ \E k \in 0..(Len(pv_src) - pv_pos) :
          LET p == ReadPollLoop(pv_value, pv_bit_offset, pv_src, pv_pos, k, BitLimitOf(pv_orig))
          IN  /\ pv_value' = p.value
              /\ pv_bit_offset' = p.bit_offset
              /\ pv_pos' = p.pos
              /\ pv_pc' = IF p.ready THEN "read" ELSE "reading"
              /\ pv_out' = IF p.ready THEN [ok |-> p.ok, err |-> p.err, value |-> p.value]
                           ELSE pv_out
              /\ pv_pendings' = IF ~p.ready /\ k > 0 THEN pv_pendings + 1 ELSE pv_pendings
    /\ UNCHANGED <<pv_orig, pv_src, pv_sink>>
    /\ UNCHANGED <<vnVars, frVars, rdVars, limVars, ccVars, nbtVars, cfbVars, pkVars, lpVars>>

\* one poll of the WriteVarInt / WriteVarLong future
PvPollWrite ==
    /\ pv_pc = "writing"
    /\ \E k \in 0..(MaxVarNumBytes(BitLimitOf(pv_orig)) - Len(pv_sink)) :
          LET p == WriteVarInt_poll(pv_value, k)
          IN  /\ pv_value' = p.value
              /\ pv_sink' = pv_sink \o p.written
              /\ pv_pc' = IF p.ready THEN "written" ELSE "writing"
              /\ pv_out' = IF p.ready THEN [ok |-> TRUE, err |-> "", value |-> <<>>] ELSE pv_out
              /\ pv_pendings' = IF ~p.ready /\ k > 0 THEN pv_pendings + 1 ELSE pv_pendings
    /\ UNCHANGED <<pv_orig, pv_src, pv_pos, pv_bit_offset>>
    /\ UNCHANGED <<vnVars, frVars, rdVars, limVars, ccVars, nbtVars, cfbVars, pkVars, lpVars>>

PvNext == PvPollRead \/ PvPollWrite

InitPending ==
    PvInit /\ VnIdle /\ FrIdle /\ RdIdle /\ LimIdle /\ CcIdle /\ NbtIdle /\ CfbIdle /\ PkIdle
        /\ LpIdle

SpecPending == InitPending /\ [][PvNext]_vars

\* C27: with Pending returned between any two bytes, the re-polled read
\* future completes with the value an uninterrupted read gives, and the
\* re-polled write future has written the bytes an uninterrupted write
\* writes, each byte once.
C27_PendingBetweenBytes ==
    /\ pv_pc = "read" =>
          /\ pv_out.ok
          /\ pv_out.value = read_var_num(pv_src, Len(pv_orig), BitLimitOf(pv_orig)).value
          /\ pv_pos = read_var_num(pv_src, Len(pv_orig), BitLimitOf(pv_orig)).consumed
    /\ pv_pc = "written" => pv_sink = write_var_num(pv_orig)
    /\ pv_pc = "writing" => pv_sink = SubSeq(write_var_num(pv_orig), 1, Len(pv_sink))

\* a five-byte VarInt written with Pending after the first and the third byte
C27_Witness ==
    /\ pv_pc = "written"
    /\ pv_orig = I32ToBits(-8877777)
    /\ pv_pendings >= 2
    /\ pv_sink = <<175, 146, 226, 251, 15>>

-----------------------------------------------------------------------------
(* EncryptedWriter over a sink that takes part of a write *)

\* C29: when the sink takes only part of a buffer, or returns Pending, and
\* the caller writes the bytes not taken again, the cipher state has advanced
\* by the bytes the sink took and no more, and what reached the sink decrypts
\* to the plaintext taken so far.
C29_CipherAdvancesByAccepted ==
    /\ ew_stream = encrypt(KeyIvInit(CfbKey, CfbIv), SubSeq(ew_plain, 1, ew_done)).stream
    /\ decrypt(KeyIvInit(CfbKey, CfbIv), cfb_wire).data = SubSeq(ew_plain, 1, ew_done)

-----------------------------------------------------------------------------
(* SoftReadLimiter: a truncated read into a buffer that already holds bytes *)

\* the last poll was a SoftReadLimiter read cut to the allowance, into a buffer
\* that held bytes already
TruncatedIntoFilled ==
    /\ lim_soft /\ limit >= 0
    /\ lim_last.kind # "none" /\ lim_last.polled
    /\ lim_last.current + lim_last.remaining > limit
    /\ Len(lim_last.filled) > 0

\* C30: when SoftReadLimiter truncates a read into a buffer that already holds
\* k > 0 filled bytes, the k bytes are kept, the bytes read are appended after
\* them, and the consumed count grows by the number of bytes read.
C30_TruncatedReadAppends ==
    TruncatedIntoFilled =>
        /\ lim_last.kind = "ok"
        /\ rbuf.filled = lim_last.filled \o SubSeq(lim_src, lim_last.pos + 1, lim_pos)
        /\ current = lim_last.current + (lim_pos - lim_last.pos)

=============================================================================
